---- MODULE Spec2Model ----
(***************************************************************************)
(* Verification model of the resolver / query / relationship resolution    *)
(* engine (ravel / pybiz): the query Executor, the Relationship batch      *)
(* join, the side-loaded dumpers and the ResolverProperty protocol.        *)
(*                                                                         *)
(* Each subsystem has its own variables and its own specification          *)
(* (SpecExec, SpecRel, SpecDump, SpecProp); the variables of the other     *)
(* subsystems stay at their initial value.                                 *)
(***************************************************************************)
EXTENDS Integers, Sequences, FiniteSets, TLC

\* ------------------------------------------------------------------------
\* Generic helpers
\* ------------------------------------------------------------------------

RECURSIVE SetToSeqBy(_, _)
\* the elements of the set S, in the order they appear in the sequence ord
SetToSeqBy(S, ord) ==
    IF ord = <<>> THEN <<>>
    ELSE IF Head(ord) \in S
         THEN <<Head(ord)>> \o SetToSeqBy(S, Tail(ord))
         ELSE SetToSeqBy(S, Tail(ord))

Range(s) == {s[i] : i \in 1..Len(s)}

\* ------------------------------------------------------------------------
\* Executor (src/ravel/query/executor.py)
\* ------------------------------------------------------------------------

VARIABLES
    epc,        \* position of Executor.execute: idle, analyzed, fetched, done,
                \* failed (an exception left execute)
    query,      \* the query being executed: selected names, where, first
    info,       \* result of _analyze_query: fields, requests
    resources,  \* the Batch built by _fetch_resources: a sequence of states
    pending,    \* requests the `for request in requests` loop has not visited
    cur,        \* the request whose inner loop runs ("" when between requests)
    idx,        \* index of the next resource of the inner loop
    callLog,    \* resolver.resolve calls, in the order they were made
    retKind,    \* unset, batch, one, none
    retval,     \* the returned resources (a sequence; one element for "one")
    storeQueries, \* number of store.query calls execute has made
    eexc        \* the exception that left execute ("" when none)

execVars == <<epc, query, info, resources, pending, cur, idx, callLog,
              retKind, retval, storeQueries, eexc>>

VARIABLES
    rpc,        \* position of pre_resolve_batch: idle, hops, flatten, done;
                \* "resolved" after a pre_resolve
    rtable,     \* the Store's table of the joined type: identity -> pid
    rbatch,     \* the source batch: a sequence of resources (records)
    rjoins,     \* Relationship.joins: a sequence of [left, right]
    rmany,      \* Relationship.many
    rsim,       \* app.is_simulation
    rwhere,     \* request.parameters.where
    rsource,    \* `source`: the resources the next hop starts from
    rmappings,  \* `mappings`: per hop, source position -> queried positions
    rqueried,   \* per hop, the resources its query returned
    rstoreLog,  \* the Store queries issued, in order
    rresult,    \* request.result: batch position -> value
    rresultSet, \* whether request.result was assigned
    rparams,    \* request.parameters: limit, offset, order_by (once read)
    rfinal      \* limit, offset and order_by of the query of the final hop

relVars == <<rpc, rtable, rbatch, rjoins, rmany, rsim, rwhere, rsource,
             rmappings, rqueried, rstoreLog, rresult, rresultSet, rparams,
             rfinal>>

VARIABLES
    dpc,        \* position of the side-loaded dump: idle, run, done, error
    dimpl,      \* "dumper" (SideLoadedDumper) or "method" (SideLoadingDumpMethod)
    downer,     \* per resource, the loaded scalar relationship `owner`
    dfriends,   \* per resource, the loaded many relationship `friends`
    dfloaded,   \* per resource, whether `friends` is loaded
    dfields,    \* the `fields` argument of the initial call
    ddepth,     \* the `depth` argument of the initial call
    dstack,     \* the call stack of the recursion
    dlinks,     \* identities holding an entry in links
    dkinds,     \* kind names that are keys of result['links']
    dplain,     \* whether result['links'] was replaced by a plain dict
    derr,       \* the exception that ended the dump ("" when none)
    darrivals,  \* per resource, how often a relationship path reached it
    dentered    \* per resource, how often the recursion was called on it

dumpVars == <<dpc, dimpl, downer, dfriends, dfloaded, dfields, ddepth, dstack,
              dlinks, dkinds, dplain, derr, darrivals, dentered>>

VARIABLES
    ppc,        \* "new" before Resolver.__init__ has run, "bound" after
    presolver,  \* the resolver's lazy flag and its callback attributes
    pstate,     \* owner.internal.state: a dict from resolver names to values
    ppre,       \* owner.internal.state as it was before the last operation
    pop,        \* the last operation on the owner and its arguments
    plog,       \* the callbacks the last operation invoked, in order
    pret,       \* what the last operation returned or raised
    plazy       \* key -> the value a lazy read stored and returned, while only
                \* reads of the key have followed that lazy read

propVars == <<ppc, presolver, pstate, ppre, pop, plog, pret, plazy>>

VARIABLES
    apc,        \* "new" before the relationship is declared, "declared" after
    aimpl,      \* "property" (RelationshipProperty) or "meta" (BizObjectMeta)
    arel,       \* the relationship: many, readonly, conditions
    arelated,   \* the value stored for the relationship on the owner
    afk,        \* the owner's foreign key field named by rel.conditions
    aprev,      \* arelated and afk as they were before the last operation
    aop,        \* the last operation and the value it was given
    alog,       \* the on_set / on_del callbacks the last operation invoked
    aexc        \* the exception the last operation raised ("" when none)

assignVars == <<apc, aimpl, arel, arelated, afk, aprev, aop, alog, aexc>>

VARIABLES
    bpc,        \* "new" before the resolver is constructed, "built" after
    bres,       \* the resolver: its callbacks, target type, many, is_bound
    bprev,      \* the resolver as it was before the last bind
    bbinds,     \* how many times bind was called
    bcalls,     \* how many times the target callback was invoked
    bjoincalls, \* how many times the join callback was invoked
    bexc        \* the exception the last bind raised ("" when none)

bindVars == <<bpc, bres, bprev, bbinds, bcalls, bjoincalls, bexc>>

VARIABLES
    qpc,        \* "idle", "made" (a QuerySpecification was constructed), "built"
    qspec,      \* the QuerySpecification made or built last
    qinput,     \* the arguments of the last construction or build
    qexc        \* the exception the last build raised ("" when none)

queryVars == <<qpc, qspec, qinput, qexc>>

VARIABLES
    xstack,     \* the predicates built so far, the newest last
    xstr        \* str() of the newest predicate, as tokens (<<>> before str)

predVars == <<xstack, xstr>>

VARIABLES
    cpc,        \* "none" until the Thing is constructed, then "new"
    cfiles,     \* the data directory of the Dao: formatted id -> stored record
    cstate,     \* the state of the resource in memory
    cdirty,     \* the dirty keys of the resource
    cheld,      \* the revisions the resource held before its last operation
    cop,        \* the last operation and the state it started from
    cexc        \* the exception the last operation raised ("" when none)

crudVars == <<cpc, cfiles, cstate, cdirty, cheld, cop, cexc>>

VARIABLES
    fpc,        \* "idle", then the operation of the QueryExecutor that ran last
    fparams,    \* the arguments of that operation
    ffetched,   \* the objects the Dao (or the relationship) returned, in order
    ftargets    \* the objects the operation ends up with, in order

backfillVars == <<fpc, fparams, ffetched, ftargets>>

\* ---- NestingDumpMethod.dump (src/pybiz/biz/dump.py) ----
VARIABLES
    npc,        \* position of the nested dump: idle, done
    nfields,    \* the `fields` argument: a set of dotted keys, each a path
    ndepth,     \* the `depth` argument
    nrelated,   \* per resource, what `related` holds for owner and friends
    nresult     \* the outcome: the exception raised and the keys of the record

nestVars == <<npc, nfields, ndepth, nrelated, nresult>>

\* ---- transaction middleware (SqlalchemyMiddleware, ZodbDaoMiddleware) ----
VARIABLES
    tpc,        \* position of the request: idle, begun, returned, ended
    tkind,      \* the middleware of the application: sqlalchemy or zodb, "" before the first request
    treq,       \* number of requests started
    texc,       \* whether the endpoint raised (the exc of post_request)
    tstatus,    \* status code of the response (zodb), 0 when there is none
    tlog,       \* the Store calls of the current request, with their success
    traised,    \* whether the post-request hook itself raised
    tcommitted  \* number of transactions committed so far

txnVars == <<tpc, tkind, treq, texc, tstatus, tlog, traised, tcommitted>>

\* ---- DaoBinder (src/pybiz/dao/dao_binder.py) ----
VARIABLES
    gpc,        \* the last call made on the binder: none, register, bind, get
    gbindings,  \* _bindings: biz type name -> DaoBinding
    gnamed,     \* the keys of _named_dao_types
    gbinds,     \* per DAO instance created, how often its bind was invoked
    gret        \* the last return of get_dao_instance

binderVars == <<gpc, gbindings, gnamed, gbinds, gret>>

ID == "_id"
REV == "_rev"

\* number of records the Store holds
StoreSize == 2

\* the fields of the resource type's schema
SchemaFields == {ID, REV, "name", "color"}

\* the non-field resolvers of the resource type, in declaration order:
\* a plain Resolver and two Relationships
DeclOrder == <<"mother", "owner", "friends">>
ResolverNames == Range(DeclOrder)

SysMaxSize == 2147483647
RelationshipPriority == 10

\* Resolver.priority / Relationship.priority
Priority(r) == IF r = "mother" THEN SysMaxSize ELSE RelationshipPriority

RECURSIVE InsertByPriority(_, _)
InsertByPriority(r, sorted) ==
    IF sorted = <<>> THEN <<r>>
    ELSE IF Priority(Head(sorted)) <= Priority(r)
         THEN <<Head(sorted)>> \o InsertByPriority(r, Tail(sorted))
         ELSE <<r>> \o sorted

RECURSIVE ResolverSort(_)
\* Resolver.sort: sorted(resolvers, key=priority), which is stable
ResolverSort(rs) ==
    IF rs = <<>> THEN <<>>
    ELSE InsertByPriority(rs[Len(rs)], ResolverSort(SubSeq(rs, 1, Len(rs) - 1)))

NoWhere == [op |-> "none", field |-> "", value |-> 0]

\* the predicates a caller may pass to where()
Wheres ==
    {NoWhere} \cup
    [op : {"eq", "ne"}, field : {"name"}, value : 1..StoreSize]

\* the record the Store holds under identity i
StoreRecord(i) ==
    (ID :> i) @@ (REV :> (100 + i)) @@ ("name" :> i) @@ ("color" :> (i % 2))

Matches(rec, w) ==
    CASE w.op = "none" -> TRUE
      [] w.op = "eq"   -> rec[w.field] = w.value
      [] w.op = "ne"   -> rec[w.field] # w.value

Project(rec, fields) == [k \in (fields \cap DOMAIN rec) |-> rec[k]]

RECURSIVE StoreQueryFrom(_, _, _)
StoreQueryFrom(i, w, fields) ==
    IF i > StoreSize THEN <<>>
    ELSE (IF Matches(StoreRecord(i), w)
          THEN <<Project(StoreRecord(i), fields)>>
          ELSE <<>>) \o StoreQueryFrom(i + 1, w, fields)

\* Store.query(predicate, fields=...): the matching records, in identity
\* order, each holding the requested fields
StoreQuery(w, fields) == StoreQueryFrom(1, w, fields)

\* the value resolver.resolve(resource, request) computes for the resource
\* at position i of the batch
ResolveValue(r, i) ==
    1000 * (CHOOSE k \in 1..Len(DeclOrder) : DeclOrder[k] = r) + i

\* mutation: fields_to_fetch starts empty instead of {ID, REV}
AnalyzeFieldsNoIdRev(q) == q.selected \cap SchemaFields

\* mutation: every schema field is fetched, whatever the selection
AnalyzeFieldsAll(q) == SchemaFields

AnalyzeFields(q) == {ID, REV} \cup (q.selected \cap SchemaFields)

AnalyzeRequests(q) == q.selected \ SchemaFields

\* Executor._analyze_query
AnalyzeQuery(q) == [fields |-> AnalyzeFields(q), requests |-> AnalyzeRequests(q)]

\* Executor._fetch_resources: one clean Resource per record, in Store order
FetchResources(q, fields) == StoreQuery(q.where, fields)

notExecVars == <<relVars, dumpVars, propVars, assignVars, bindVars, queryVars, predVars, crudVars,
    backfillVars,
    nestVars,
    txnVars,
    binderVars>>
notRelVars == <<execVars, dumpVars, propVars, assignVars, bindVars, queryVars, predVars, crudVars,
    backfillVars,
    nestVars,
    txnVars,
    binderVars>>
notDumpVars == <<execVars, relVars, propVars, assignVars, bindVars, queryVars, predVars, crudVars,
    backfillVars,
    nestVars,
    txnVars,
    binderVars>>
notPropVars == <<execVars, relVars, dumpVars, assignVars, bindVars, queryVars, predVars, crudVars,
    backfillVars,
    nestVars,
    txnVars,
    binderVars>>
notAssignVars == <<execVars, relVars, dumpVars, propVars, bindVars, queryVars, predVars, crudVars,
    backfillVars,
    nestVars,
    txnVars,
    binderVars>>
notBindVars == <<execVars, relVars, dumpVars, propVars, assignVars, queryVars, predVars, crudVars,
    backfillVars,
    nestVars,
    txnVars,
    binderVars>>
notQueryVars == <<execVars, relVars, dumpVars, propVars, assignVars, bindVars, predVars,
                  crudVars,
    backfillVars,
    nestVars,
    txnVars,
    binderVars>>
notPredVars == <<execVars, relVars, dumpVars, propVars, assignVars, bindVars,
                 queryVars, crudVars,
    backfillVars,
    nestVars,
    txnVars,
    binderVars>>
notCrudVars == <<execVars, relVars, dumpVars, propVars, assignVars, bindVars,
                 queryVars, predVars,
    backfillVars,
    nestVars,
    txnVars,
    binderVars>>
notBackfillVars == <<execVars, relVars, dumpVars, propVars, assignVars, bindVars, queryVars, predVars, crudVars,
    nestVars,
    txnVars,
    binderVars>>
notNestVars == <<execVars, relVars, dumpVars, propVars, assignVars, bindVars, queryVars, predVars, crudVars, backfillVars,
    txnVars,
    binderVars>>
notTxnVars == <<execVars, relVars, dumpVars, propVars, assignVars, bindVars, queryVars, predVars, crudVars, backfillVars, nestVars,
    binderVars>>
notBinderVars == <<execVars, relVars, dumpVars, propVars, assignVars, bindVars, queryVars, predVars, crudVars, backfillVars, nestVars, txnVars>>

InitExec ==
    /\ epc = "idle"
    /\ query = [selected |-> {}, where |-> NoWhere, first |-> FALSE]
    /\ info = [fields |-> {}, requests |-> {}]
    /\ resources = <<>>
    /\ pending = {}
    /\ cur = ""
    /\ idx = 1
    /\ callLog = <<>>
    /\ retKind = "unset"
    /\ retval = <<>>
    /\ storeQueries = 0
    /\ eexc = ""

\* Executor.execute, line 11: info = self._analyze_query(query)
Analyze ==
    /\ epc = "idle"
    /\ \E sel \in SUBSET (SchemaFields \cup ResolverNames),
          w \in Wheres, f \in BOOLEAN :
          /\ query' = [selected |-> sel, where |-> w, first |-> f]
          /\ info' = AnalyzeQuery(query')
    /\ epc' = "analyzed"
    /\ UNCHANGED <<resources, pending, cur, idx, callLog, retKind, retval,
                   storeQueries, eexc>>
    /\ UNCHANGED notExecVars

\* Executor.execute, line 16: resources = self._fetch_resources(...)
Fetch ==
    /\ epc = "analyzed"
    /\ resources' = FetchResources(query, info.fields)
    /\ pending' = info.requests
    /\ storeQueries' = storeQueries + 1
    /\ epc' = "fetched"
    /\ UNCHANGED <<query, info, cur, idx, callLog, retKind, retval, eexc>>
    /\ UNCHANGED notExecVars

\* _execute_requests, line 55: the next request of `for request in requests`;
\* requests is a set of objects, so the iteration order is any order
NextRequest ==
    /\ epc = "fetched"
    /\ cur = ""
    /\ \E r \in pending :
          /\ cur' = r
          /\ pending' = pending \ {r}
    /\ idx' = 1
    /\ UNCHANGED <<epc, query, info, resources, callLog, retKind, retval,
                   storeQueries, eexc>>
    /\ UNCHANGED notExecVars

\* _execute_requests, lines 57-59: resolve on the next resource
ResolveOne ==
    /\ epc = "fetched"
    /\ cur # ""
    /\ idx <= Len(resources)
    /\ LET value == ResolveValue(cur, idx)
       IN  /\ resources' = [resources EXCEPT ![idx] = (cur :> value) @@ @]
           /\ callLog' = Append(callLog, [resolver |-> cur, pos |-> idx])
    /\ idx' = idx + 1
    /\ UNCHANGED <<epc, query, info, pending, cur, retKind, retval,
                   storeQueries, eexc>>
    /\ UNCHANGED notExecVars

\* _execute_requests: the inner loop over the resources is exhausted
EndRequest ==
    /\ epc = "fetched"
    /\ cur # ""
    /\ idx > Len(resources)
    /\ cur' = ""
    /\ UNCHANGED <<epc, query, info, resources, pending, idx, callLog,
                   retKind, retval, storeQueries, eexc>>
    /\ UNCHANGED notExecVars

\* Executor.execute, lines 20-23: compute the return value
Return ==
    /\ epc = "fetched"
    /\ cur = ""
    /\ pending = {}
    /\ IF query.first
       THEN IF resources # <<>>
            THEN retKind' = "one" /\ retval' = <<resources[1]>>
            ELSE retKind' = "none" /\ retval' = <<>>
       ELSE retKind' = "batch" /\ retval' = resources
    /\ epc' = "done"
    /\ UNCHANGED <<query, info, resources, pending, cur, idx, callLog,
                   storeQueries, eexc>>
    /\ UNCHANGED notExecVars

\* Executor._fetch_resources, line 48: store.query raises; execute has no
\* handler, so the exception leaves execute
FetchFails ==
    /\ epc = "analyzed"
    /\ storeQueries' = storeQueries + 1
    /\ eexc' = "StoreError"
    /\ epc' = "failed"
    /\ UNCHANGED <<query, info, resources, pending, cur, idx, callLog, retKind,
                   retval>>
    /\ UNCHANGED notExecVars

\* mutation: the exception of a resolver is swallowed and the loop goes on
\* with the next resource
ResolveFailsSwallowed ==
    /\ epc = "fetched"
    /\ cur # ""
    /\ idx <= Len(resources)
    /\ callLog' = Append(callLog, [resolver |-> cur, pos |-> idx])
    /\ eexc' = "NotImplementedError"
    /\ idx' = idx + 1
    /\ UNCHANGED <<epc, query, info, resources, pending, cur, retKind, retval,
                   storeQueries>>
    /\ UNCHANGED notExecVars

\* _execute_requests, line 58: resolver.resolve raises (Resolver.on_execute
\* raises NotImplementedError when the resolver has none); neither
\* _execute_requests nor execute has a handler, so the exception leaves
\* execute before line 59 and before any return value is computed
ResolveFails ==
    /\ epc = "fetched"
    /\ cur # ""
    /\ idx <= Len(resources)
    /\ callLog' = Append(callLog, [resolver |-> cur, pos |-> idx])
    /\ eexc' = "NotImplementedError"
    /\ epc' = "failed"
    /\ UNCHANGED <<query, info, resources, pending, cur, idx, retKind, retval,
                   storeQueries>>
    /\ UNCHANGED notExecVars

\* ------------------------------------------------------------------------
\* Relationship batch resolution (src/ravel/resolver/resolvers/relationship.py)
\* ------------------------------------------------------------------------

\* number of records in the Store's table of the joined resource type
TableSize == 2

\* largest source batch
MaxBatch == 2

TableIds == 1..TableSize

\* the joined type is self-referential, like Node in tests/test_relationship.py:
\* every record has an identity and a parent identity (0 when it has none)
Tables == [TableIds -> 0..TableSize]

RelRecord(t, i) == (ID :> i) @@ ("pid" :> t[i])

IdSeq == [i \in TableIds |-> i]

\* the source batches: resources of the table, at most MaxBatch of them
Batches(t) ==
    {[k \in 1..Cardinality(S) |-> RelRecord(t, SetToSeqBy(S, IdSeq)[k])] :
        S \in {X \in SUBSET TableIds : Cardinality(X) <= MaxBatch}}

Join(l, r) == [left |-> l, right |-> r]

\* the join chains of the modelled relationships: parent, children,
\* grandparent, grandchildren, siblings, parents of the children
Chains ==
    { <<Join("pid", ID)>>,
      <<Join(ID, "pid")>>,
      <<Join("pid", ID), Join("pid", ID)>>,
      <<Join(ID, "pid"), Join(ID, "pid")>>,
      <<Join("pid", ID), Join(ID, "pid")>>,
      <<Join(ID, "pid"), Join("pid", ID)>> }

\* the predicates a request may carry in parameters.where
RelWheres == {NoWhere, [op |-> "ne", field |-> ID, value |-> 1]}

\* Join.build for a batch source:
\* where(right_loader_property.including({left values of the source}))
JoinBuild(j, source) ==
    [field |-> j.right, values |-> {source[i][j.left] : i \in 1..Len(source)}]

\* mutation: one query per element of the source batch
HopQueriesPerElement(j, source) ==
    [i \in 1..Len(source) |-> JoinBuild(j, <<source[i]>>)]

\* the queries one iteration of the hop loop builds and executes
HopQueries(j, source) == <<JoinBuild(j, source)>>

RECURSIVE RelStoreQueryFrom(_, _, _, _)
RelStoreQueryFrom(i, t, qs, w) ==
    IF i > TableSize THEN <<>>
    ELSE (IF /\ \E k \in 1..Len(qs) : RelRecord(t, i)[qs[k].field] \in qs[k].values
             /\ Matches(RelRecord(t, i), w)
          THEN <<RelRecord(t, i)>>
          ELSE <<>>) \o RelStoreQueryFrom(i + 1, t, qs, w)

\* query.execute(): the records the Store returns for the hop's queries
RelStoreQuery(t, qs, w) == RelStoreQueryFrom(1, t, qs, w)

\* mutation: the source side is matched on the join's right field
HopMappingRightField(j, source, queried) ==
    [i \in 1..Len(source) |->
        {k \in 1..Len(queried) : queried[k][j.right] = source[i][j.right]}]

\* lines 105-115: value_2_queried_resource, then the mapping from each source
\* resource to the queried resources whose right value is its left value
HopMapping(j, source, queried) ==
    [i \in 1..Len(source) |->
        {k \in 1..Len(queried) : queried[k][j.right] = source[i][j.left]}]

RECURSIVE ExtractCount(_, _, _, _)
RECURSIVE ExtractCountSet(_, _, _, _)
\* how many times the resource at position target of the last hop's result
\* occurs in the list extract(key, mappings, index) returns
ExtractCount(mappings, key, index, target) ==
    IF index = Len(mappings)
    THEN (IF target \in mappings[index][key] THEN 1 ELSE 0)
    ELSE ExtractCountSet(mappings, mappings[index][key], index + 1, target)

\* results.extend(extract(res, mappings, index + 1)) for res in values[key]
ExtractCountSet(mappings, S, index, target) ==
    IF S = {} THEN 0
    ELSE LET x == CHOOSE y \in S : TRUE
         IN  ExtractCount(mappings, x, index, target)
               + ExtractCountSet(mappings, S \ {x}, index, target)

\* extract(res, mappings, 0) as a bag: position in the last hop's result ->
\* number of occurrences in the returned list
Extract(mappings, queriedLast, key) ==
    [t \in 1..Len(queriedLast) |-> ExtractCount(mappings, key, 1, t)]

BagSupport(bag) == {t \in DOMAIN bag : bag[t] > 0}

\* mutation: the simulation flag of the application is ignored
IsSimulationIgnored(sim) == FALSE

\* `if self.app.is_simulation: return` (lines 45-48 and 80-83)
IsSimulation(sim) == sim

\* the largest limit or offset a request carries
MaxRelParam == 1

\* a parameter value: None, an integer, or an ordering (the n-th of the
\* orderings a caller may ask for)
NoParam == [t |-> "none", n |-> 0]

IntParam(n) == [t |-> "int", n |-> n]

OrderParam(n) == [t |-> "order", n |-> n]

\* request.parameters
RequestParameters ==
    [ limit : {NoParam} \cup {IntParam(n) : n \in 1..MaxRelParam},
      offset : {NoParam} \cup {IntParam(n) : n \in 0..MaxRelParam},
      order_by : {NoParam, OrderParam(1)} ]

NoParameters == [limit |-> NoParam, offset |-> NoParam, order_by |-> NoParam]

\* `if value:`
Truthy(v) == v.t # "none" /\ ~(v.t = "int" /\ v.n = 0)

\* Query.order_by(value): sets the ordering of the query
QueryOrderBy(q, v) == [q EXCEPT !.order_by = v]

\* pre_resolve lines 67-72 and pre_resolve_batch lines 98-103: the values
\* passed in through the request are set on the final query
ApplyParameters(q, p) ==
    LET q1 == IF Truthy(p.order_by) THEN QueryOrderBy(q, p.order_by) ELSE q
        q2 == IF Truthy(p.limit) THEN QueryOrderBy(q1, p.limit) ELSE q1
        q3 == IF Truthy(p.offset) THEN QueryOrderBy(q2, p.offset) ELSE q2
    IN  q3

\* pre_resolve lines 54-58: the results of the intermediate hops, starting
\* from source (a sequence of resources), for the joins from position h on
RECURSIVE ScalarHops(_, _, _, _)
ScalarHops(t, joins, h, source) ==
    IF h >= Len(joins) THEN <<>>
    ELSE LET result == RelStoreQuery(t, <<JoinBuild(joins[h], source)>>, NoWhere)
         IN  <<result>> \o ScalarHops(t, joins, h + 1, result)

EmptyBag == [t \in {} |-> 0]

InitRel ==
    /\ rpc = "idle"
    /\ rtable = [i \in TableIds |-> 0]
    /\ rbatch = <<>>
    /\ rjoins = <<>>
    /\ rmany = FALSE
    /\ rsim = FALSE
    /\ rwhere = NoWhere
    /\ rsource = <<>>
    /\ rmappings = <<>>
    /\ rqueried = <<>>
    /\ rstoreLog = <<>>
    /\ rresult = <<>>
    /\ rresultSet = FALSE
    /\ rparams = NoParameters
    /\ rfinal = NoParameters

\* pre_resolve_batch is entered (lines 79-86): in simulation mode it returns
\* at once
PreResolveBatch ==
    /\ rpc = "idle"
    /\ \E t \in Tables, chain \in Chains, many \in BOOLEAN, sim \in BOOLEAN,
          w \in RelWheres :
          /\ rtable' = t
          /\ rjoins' = chain
          /\ rmany' = many
          /\ rsim' = sim
          /\ rwhere' = w
          /\ \E b \in Batches(t) :
                /\ rbatch' = b
                /\ rsource' = IF IsSimulation(sim) THEN <<>> ELSE b
          /\ rpc' = IF IsSimulation(sim) THEN "done" ELSE "hops"
    /\ UNCHANGED <<rmappings, rqueried, rstoreLog, rresult, rresultSet, rparams,
                   rfinal>>
    /\ UNCHANGED notRelVars

\* one iteration of `for j1, j2 in zip(self.joins, self.joins[1:] + [None])`
\* (lines 88-118); request.parameters is read in the last iteration only, so
\* its limit, offset and order_by are drawn there
Hop ==
    /\ rpc = "hops"
    /\ LET h == Len(rmappings) + 1
           j1 == rjoins[h]
           isLast == h = Len(rjoins)
           qs == HopQueries(j1, rsource)
           queried == RelStoreQuery(rtable, qs, IF isLast THEN rwhere ELSE NoWhere)
       IN  /\ rstoreLog' = rstoreLog \o
                 [k \in 1..Len(qs) |-> [hop |-> h, field |-> qs[k].field,
                                        values |-> qs[k].values]]
           /\ rqueried' = Append(rqueried, queried)
           /\ rmappings' = Append(rmappings, HopMapping(j1, rsource, queried))
           /\ rsource' = queried
           /\ IF isLast
              THEN \E params \in RequestParameters :
                      /\ rparams' = params
                      /\ rfinal' = ApplyParameters(NoParameters, params)
              ELSE UNCHANGED <<rparams, rfinal>>
           /\ rpc' = IF isLast THEN "flatten" ELSE "hops"
    /\ UNCHANGED <<rtable, rbatch, rjoins, rmany, rsim, rwhere, rresult,
                   rresultSet>>
    /\ UNCHANGED notRelVars

\* lines 131-141: request.result[res] for every resource of the batch; the
\* scalar value is the first element of a list built by iterating sets, so
\* it is any of the extracted resources
Flatten ==
    /\ rpc = "flatten"
    /\ LET last == rqueried[Len(rqueried)]
           bagOf(i) == Extract(rmappings, last, i)
       IN  \E first \in [1..Len(rbatch) -> 0..Len(last)] :
              /\ \A i \in 1..Len(rbatch) :
                    IF BagSupport(bagOf(i)) = {}
                    THEN first[i] = 0
                    ELSE first[i] \in BagSupport(bagOf(i))
              /\ rresult' =
                    [i \in 1..Len(rbatch) |->
                        IF rmany
                        THEN [kind |-> "batch", bag |-> bagOf(i), one |-> 0]
                        ELSE IF first[i] = 0
                             THEN [kind |-> "none", bag |-> EmptyBag, one |-> 0]
                             ELSE [kind |-> "one", bag |-> EmptyBag,
                                   one |-> first[i]]]
    /\ rresultSet' = TRUE
    /\ rpc' = "done"
    /\ UNCHANGED <<rtable, rbatch, rjoins, rmany, rsim, rwhere, rsource,
                   rmappings, rqueried, rstoreLog, rparams, rfinal>>
    /\ UNCHANGED notRelVars

\* Relationship.pre_resolve(resource, request), lines 44-77: in simulation
\* mode it returns at once; otherwise it walks the joins from the resource,
\* sets the request's values on the final query, executes it (first=not
\* many) and assigns request.result
PreResolve ==
    /\ rpc = "idle"
    /\ \E t \in Tables, chain \in Chains, many \in BOOLEAN, sim \in BOOLEAN,
          w \in RelWheres, params \in RequestParameters, i \in TableIds :
          LET resource == RelRecord(t, i)
              hops == ScalarHops(t, chain, 1, <<resource>>)
              source == IF hops = <<>> THEN <<resource>> ELSE hops[Len(hops)]
              final == JoinBuild(chain[Len(chain)], source)
              last == RelStoreQuery(t, <<final>>, w)
              builds == [h \in 1..Len(chain) |->
                            JoinBuild(chain[h],
                                      IF h = 1 THEN <<resource>> ELSE hops[h - 1])]
          IN  /\ rtable' = t
              /\ rjoins' = chain
              /\ rmany' = many
              /\ rsim' = sim
              /\ rwhere' = w
              /\ rparams' = params
              /\ rbatch' = <<resource>>
              /\ IF IsSimulation(sim)
                 THEN UNCHANGED <<rsource, rqueried, rstoreLog, rresult,
                                  rresultSet, rfinal>>
                 ELSE /\ rsource' = source
                      /\ rqueried' = Append(hops, last)
                      /\ rstoreLog' =
                            [h \in 1..Len(chain) |->
                                [hop |-> h, field |-> builds[h].field,
                                 values |-> builds[h].values]]
                      /\ rfinal' = ApplyParameters(NoParameters, params)
                      /\ rresultSet' = TRUE
                      /\ \E first \in 0..Len(last) :
                            /\ (first = 0) = (last = <<>>)
                            /\ rresult' =
                                  <<IF many
                                    THEN [kind |-> "batch",
                                          bag |-> [k \in 1..Len(last) |-> 1],
                                          one |-> 0]
                                    ELSE IF first = 0
                                    THEN [kind |-> "none", bag |-> EmptyBag,
                                          one |-> 0]
                                    ELSE [kind |-> "one", bag |-> EmptyBag,
                                          one |-> first]>>
    /\ rpc' = "resolved"
    /\ UNCHANGED rmappings
    /\ UNCHANGED notRelVars

NextRel ==
    \/ PreResolveBatch
    \/ PreResolve
    \/ Hop
    \/ Flatten

\* ------------------------------------------------------------------------
\* Side-loaded dump: SideLoadedDumper (src/pybiz/biz/dumper.py) and
\* SideLoadingDumpMethod (src/pybiz/biz/dump.py)
\* ------------------------------------------------------------------------

\* the resources of the resolved object graph, by identity
Nodes == {1, 2, 3}

\* deepest call stack of SideLoadedDumper._dump_recursive before the
\* interpreter raises RecursionError
MaxStack == 4

\* largest `depth` argument given to SideLoadingDumpMethod.dump
MaxDepth == 2

\* the class name of a resource, snake-cased: the key of links in dump.py
KindOf(n) == IF n <= 2 THEN "node" ELSE "user"

Absent == -1
NoneValue == 0

\* the resource `owner` may hold for resource n when it is loaded and set
OwnerOf(n) == (n % Cardinality(Nodes)) + 1

\* the `fields` values: None, True, or a dict from relationship names to them
NoneSpec == [t |-> "none", sub |-> <<>>]
TrueSpec == [t |-> "true", sub |-> <<>>]
DictSpec(f) == [t |-> "dict", sub |-> f]

\* the `fields` arguments of the modelled dump calls
FieldSpecs ==
    { NoneSpec,
      DictSpec("friends" :> TrueSpec),
      DictSpec("owner" :> TrueSpec),
      DictSpec(("owner" :> DictSpec(<<>>)) @@ ("friends" :> DictSpec(<<>>))),
      DictSpec("friends" :> DictSpec("friends" :> DictSpec(<<>>))),
      DictSpec("friends" :> DictSpec(("owner" :> DictSpec(<<>>))
                                       @@ ("friends" :> DictSpec(<<>>)))),
      DictSpec("owner" :> DictSpec("friends" :> DictSpec("owner" :> DictSpec(<<>>)))) }

\* `include` of a call: `fields` when it is a non-empty dict at the initial
\* call (dump.py line 131), `fields` itself in a recursive call (line 141)
IncludeOf(fields, initial) ==
    IF fields.t = "dict" /\ ~(initial /\ DOMAIN fields.sub = {})
    THEN fields
    ELSE NoneSpec

\* dump.py lines 152-154: related_fields = include.get(k), True becomes None
RelatedFields(include, k) ==
    IF include.sub[k].t = "true" THEN NoneSpec ELSE include.sub[k]

FriendSeq(S) == SetToSeqBy(S, [i \in 1..Cardinality(Nodes) |-> i])

\* the related resources _dump_recursive recurses on, in the order of the
\* state's relationship keys (dumper.py lines 106-112, 125-131)
DumperItems(n) ==
    (IF downer[n] = Absent THEN <<>>
     ELSE <<[node |-> downer[n], fields |-> NoneSpec]>>)
    \o (IF dfloaded[n]
        THEN [i \in 1..Cardinality(dfriends[n]) |->
                 [node |-> FriendSeq(dfriends[n])[i], fields |-> NoneSpec]]
        ELSE <<>>)

\* dumper.py line 110: getattr(v, ID_FIELD_NAME) on a relationship whose
\* value is None
DumperEntryError(n) ==
    IF downer[n] = NoneValue THEN "AttributeError" ELSE ""

\* the relationships of the class the loop of dump.py line 144 does not skip
IncludedRels(include) ==
    IF include.t = "none" THEN {"owner", "friends"}
    ELSE DOMAIN include.sub \cap {"owner", "friends"}

\* dump.py lines 144-152: include.get(k) when include is None and the class
\* has relationships
MethodEntryError(n, include) ==
    IF include.t = "none" THEN "AttributeError" ELSE ""

\* dump.py lines 149-164: the (related_bizobj, related_fields) pairs of one
\* call. No relationship carries a query callback, so a relationship that is
\* not loaded stays None: the scalar one yields the pair (None, fields), and
\* for the many one len(None) raises where its pairs would start (Absent).
MethodItems(n, include) ==
    (IF "owner" \in IncludedRels(include)
     THEN <<[node |-> IF downer[n] = Absent THEN NoneValue ELSE downer[n],
             fields |-> RelatedFields(include, "owner")]>>
     ELSE <<>>)
    \o (IF "friends" \in IncludedRels(include)
        THEN IF dfloaded[n]
             THEN [i \in 1..Cardinality(dfriends[n]) |->
                      [node |-> FriendSeq(dfriends[n])[i],
                       fields |-> RelatedFields(include, "friends")]]
             ELSE <<[node |-> Absent, fields |-> NoneSpec]>>
        ELSE <<>>)

Frame(n, depth, todo) == [node |-> n, depth |-> depth, todo |-> todo]

Bump(f, n) == [f EXCEPT ![n] = @ + 1]

Top == dstack[Len(dstack)]

PopTodo == [dstack EXCEPT ![Len(dstack)].todo = Tail(@)]

InitDump ==
    /\ dpc = "idle"
    /\ dimpl = ""
    /\ downer = [n \in Nodes |-> Absent]
    /\ dfriends = [n \in Nodes |-> {}]
    /\ dfloaded = [n \in Nodes |-> FALSE]
    /\ dfields = NoneSpec
    /\ ddepth = 0
    /\ dstack = <<>>
    /\ dlinks = {}
    /\ dkinds = {}
    /\ dplain = FALSE
    /\ derr = ""
    /\ darrivals = [n \in Nodes |-> 0]
    /\ dentered = [n \in Nodes |-> 0]

\* the resolved object graphs: per resource, owner is not loaded, None or
\* another resource, and friends is not loaded or a batch of other resources
GraphChoice ==
    /\ downer' \in [Nodes -> {Absent, NoneValue} \cup Nodes]
    /\ \A n \in Nodes : downer'[n] \in {Absent, NoneValue, OwnerOf(n)}
    /\ dfriends' \in [Nodes -> SUBSET Nodes]
    /\ \A n \in Nodes : n \notin dfriends'[n]
    /\ dfloaded' \in [Nodes -> BOOLEAN]
    /\ \A n \in Nodes : ~dfloaded'[n] => dfriends'[n] = {}

\* SideLoadedDumper.dump(target): the first call of _dump_recursive
DumperStart ==
    /\ dpc = "idle"
    /\ GraphChoice
    /\ dimpl' = "dumper"
    /\ dentered' = Bump(dentered, 1)
    /\ IF DumperEntryError(1)' # ""
       THEN /\ dpc' = "error"
            /\ derr' = DumperEntryError(1)'
            /\ dstack' = <<>>
       ELSE /\ dpc' = "run"
            /\ derr' = ""
            /\ dstack' = <<Frame(1, 0, DumperItems(1)')>>
    /\ UNCHANGED <<dfields, ddepth, dlinks, dkinds, dplain, darrivals>>
    /\ UNCHANGED notDumpVars

\* _recurse_on_entity: _dump_recursive is called on the next related resource
DumperRecurse ==
    /\ dpc = "run"
    /\ dimpl = "dumper"
    /\ dstack # <<>>
    /\ Top.todo # <<>>
    /\ LET m == Head(Top.todo).node
       IN  /\ darrivals' = Bump(darrivals, m)
           /\ dentered' = Bump(dentered, m)
           /\ IF Len(dstack) >= MaxStack
              THEN /\ dpc' = "error"
                   /\ derr' = "RecursionError"
                   /\ dstack' = <<>>
              ELSE IF DumperEntryError(m) # ""
              THEN /\ dpc' = "error"
                   /\ derr' = DumperEntryError(m)
                   /\ dstack' = <<>>
              ELSE /\ dpc' = "run"
                   /\ derr' = ""
                   /\ dstack' = Append(PopTodo, Frame(m, 0, DumperItems(m)))
    /\ UNCHANGED <<dimpl, downer, dfriends, dfloaded, dfields, ddepth, dlinks,
                   dkinds, dplain>>
    /\ UNCHANGED notDumpVars

\* mutation: the record of a resource is only stored for the target
DumperReturnTargetOnly ==
    /\ dpc = "run"
    /\ dimpl = "dumper"
    /\ dstack # <<>>
    /\ Top.todo = <<>>
    /\ dlinks' = IF Len(dstack) = 1 THEN dlinks \cup {Top.node} ELSE dlinks
    /\ dstack' = SubSeq(dstack, 1, Len(dstack) - 1)
    /\ UNCHANGED <<dpc, dimpl, downer, dfriends, dfloaded, dfields, ddepth,
                   dkinds, dplain, derr, darrivals, dentered>>
    /\ UNCHANGED notDumpVars

\* _dump_recursive, lines 116-123: the record is stored in (or merged into)
\* links under the resource's identity, and the call returns
DumperReturn ==
    /\ dpc = "run"
    /\ dimpl = "dumper"
    /\ dstack # <<>>
    /\ Top.todo = <<>>
    /\ dlinks' = dlinks \cup {Top.node}
    /\ dstack' = SubSeq(dstack, 1, Len(dstack) - 1)
    /\ UNCHANGED <<dpc, dimpl, downer, dfriends, dfloaded, dfields, ddepth,
                   dkinds, dplain, derr, darrivals, dentered>>
    /\ UNCHANGED notDumpVars

\* SideLoadedDumper.dump, lines 94-97: the target's record is popped from links
DumperFinish ==
    /\ dpc = "run"
    /\ dimpl = "dumper"
    /\ dstack = <<>>
    /\ dlinks' = dlinks \ {1}
    /\ dpc' = "done"
    /\ UNCHANGED <<dimpl, downer, dfriends, dfloaded, dfields, ddepth, dstack,
                   dkinds, dplain, derr, darrivals, dentered>>
    /\ UNCHANGED notDumpVars

\* SideLoadingDumpMethod.dump(bizobj, depth, fields): the initial call
MethodStart ==
    /\ dpc = "idle"
    /\ GraphChoice
    /\ dimpl' = "method"
    /\ dentered' = Bump(dentered, 1)
    /\ \E f \in FieldSpecs, d \in 0..MaxDepth :
          /\ dfields' = f
          /\ ddepth' = d
          /\ LET include == IncludeOf(f, TRUE)
                 err == IF d < 1 THEN "TypeError"
                        ELSE MethodEntryError(1, include)'
             IN  IF err # ""
                 THEN /\ dpc' = "error"
                      /\ derr' = err
                      /\ dstack' = <<>>
                 ELSE /\ dpc' = "run"
                      /\ derr' = ""
                      /\ dstack' = <<Frame(1, d, MethodItems(1, include)')>>
    /\ UNCHANGED <<dlinks, dkinds, dplain, darrivals>>
    /\ UNCHANGED notDumpVars

\* dump.py line 175: the related resource already has an entry in links
MethodVisited(m) == m \in dlinks

\* dump.py lines 167-186: the next (related_bizobj, related_fields) pair
MethodRelated ==
    /\ dpc = "run"
    /\ dimpl = "method"
    /\ Top.todo # <<>>
    /\ LET m == Head(Top.todo).node
           f == Head(Top.todo).fields
           d == Top.depth - 1
           include == IncludeOf(f, FALSE)
       IN  /\ darrivals' = IF m \in Nodes THEN Bump(darrivals, m) ELSE darrivals
           /\ IF m \notin Nodes
              THEN \* len(None) at line 162, or None._id at line 171
                   /\ dpc' = "error"
                   /\ derr' = IF m = Absent THEN "TypeError" ELSE "AttributeError"
                   /\ dstack' = <<>>
                   /\ UNCHANGED <<dlinks, dkinds, dplain, dentered>>
              ELSE IF dplain /\ KindOf(m) \notin dkinds
              THEN \* result['links'][kind] on the plain dict
                   /\ dpc' = "error"
                   /\ derr' = "KeyError"
                   /\ dstack' = <<>>
                   /\ UNCHANGED <<dlinks, dkinds, dplain, dentered>>
              ELSE IF MethodVisited(m)
              THEN /\ dstack' = PopTodo
                   /\ dkinds' = dkinds \cup {KindOf(m)}
                   /\ UNCHANGED <<dpc, derr, dlinks, dplain, dentered>>
              ELSE /\ dlinks' = dlinks \cup {m}
                   /\ dkinds' = dkinds \cup {KindOf(m)}
                   /\ dentered' = Bump(dentered, m)
                   /\ IF d < 1
                      THEN \* base case: links becomes a plain dict
                           /\ dplain' = TRUE
                           /\ dstack' = PopTodo
                           /\ UNCHANGED <<dpc, derr>>
                      ELSE IF MethodEntryError(m, include) # ""
                      THEN /\ dpc' = "error"
                           /\ derr' = MethodEntryError(m, include)
                           /\ dstack' = <<>>
                           /\ UNCHANGED dplain
                      ELSE /\ dstack' = Append(PopTodo,
                                               Frame(m, d, MethodItems(m, include)))
                           /\ UNCHANGED <<dpc, derr, dplain>>
    /\ UNCHANGED <<dimpl, downer, dfriends, dfloaded, dfields, ddepth>>
    /\ UNCHANGED notDumpVars

\* dump.py line 188: a call of dump returns to its caller
MethodReturn ==
    /\ dpc = "run"
    /\ dimpl = "method"
    /\ Top.todo = <<>>
    /\ dstack' = SubSeq(dstack, 1, Len(dstack) - 1)
    /\ dpc' = IF Len(dstack) = 1 THEN "done" ELSE "run"
    /\ UNCHANGED <<dimpl, downer, dfriends, dfloaded, dfields, ddepth, dlinks,
                   dkinds, dplain, derr, darrivals, dentered>>
    /\ UNCHANGED notDumpVars

NextDump ==
    \/ DumperStart
    \/ DumperRecurse
    \/ DumperReturn
    \/ DumperFinish
    \/ MethodStart
    \/ MethodRelated
    \/ MethodReturn

\* ------------------------------------------------------------------------
\* Resolver.execute (src/pybiz/biz/resolver/resolver.py) and ResolverProperty
\* (src/pybiz/biz/resolver/resolver_property.py)
\* ------------------------------------------------------------------------

\* the largest value a callback computes or a caller writes (0 is None)
MaxValue == 2

Values == 1..MaxValue

\* the resolver-backed attributes of the owner
PropKeys == {"mother", "color"}

Owner == "dog"

\* a post_execute callback given by the user: any function that is not the
\* identity
UserPostExecute(raw) == (raw % MaxValue) + 1

\* what the constructor is given for on_execute: nothing, a stub whose body
\* is empty, or a function
OnExecuteArgs == {"none", "stub", "user"}

\* on_set is given as an argument ("arg"), overridden in a subclass of
\* Resolver ("override"), or neither
OnSetKinds == {"none", "arg", "override"}

\* the on_set attribute of the instance while __init__ line 86 runs: the
\* class's on_set, since line 87 has not assigned the argument yet
ClassOnSet(onSet) ==
    IF onSet = "override" THEN "subclass.on_set" ELSE "Resolver.on_set"

\* Resolver.__init__, lines 74-88: the callback attributes of the instance
NewResolver(lazy, pre, onExec, post, onGet, onSet, onDel) ==
    [ lazy |-> lazy,
      pre_execute |-> IF pre THEN "user.pre_execute" ELSE "Resolver.pre_execute",
      on_execute |-> IF onExec = "user" THEN "user.on_execute"
                     ELSE "Resolver.on_execute",
      post_execute |-> IF post THEN "user.post_execute"
                       ELSE "Resolver.post_execute",
      on_get |-> IF onGet THEN "user.on_get" ELSE ClassOnSet(onSet),
      on_set |-> IF onSet = "arg" THEN "user.on_set" ELSE ClassOnSet(onSet),
      on_del |-> IF onDel THEN "user.on_del" ELSE "Resolver.on_del" ]

NoRequest == [source |-> "", resolver |-> "", selected |-> {}, mutated |-> FALSE]

\* QueryRequest(query, source=owner, resolver=self.resolver), where query is
\* self.select().select(key).alias(key)
LazyRequest(key) ==
    [source |-> Owner, resolver |-> key, selected |-> {key}, mutated |-> FALSE]

\* one invocation of a callback: the attribute invoked, the function it
\* holds, the positional value arguments, the return value, whether the key
\* is in the owner's state while the callback runs, and the request passed
Event(slot, fn, key, args, ret, present, req) ==
    [ slot |-> slot, fn |-> fn, key |-> key, args |-> args, ret |-> ret,
      present |-> present, req |-> req ]

DictPop(st, key) == [k \in DOMAIN st \ {key} |-> st[k]]

DictSet(st, key, value) ==
    [k \in DOMAIN st \cup {key} |-> IF k = key THEN value ELSE st[k]]

DictGet(st, key) == IF key \in DOMAIN st THEN st[key] ELSE NoneValue

Outcome(st, log, ret, exc) == [state |-> st, log |-> log, ret |-> ret, exc |-> exc]

\* mutation: on_set is given None as the old value whatever the state held
PropertyOnSetNoOld(r, st, key, value) ==
    LET st2 == DictSet(DictPop(st, key), key, value)
    IN  Outcome(st2,
                <<Event("on_set", r.on_set, key, <<NoneValue, value>>, NoneValue,
                        TRUE, NoRequest)>>,
                NoneValue, "")

\* ResolverProperty.on_set, lines 63-68
PropertyOnSet(r, st, key, value) ==
    LET old == DictGet(st, key)
        st2 == DictSet(DictPop(st, key), key, value)
    IN  Outcome(st2,
                <<Event("on_set", r.on_set, key, <<old, value>>, NoneValue,
                        TRUE, NoRequest)>>,
                NoneValue, "")

\* mutation: on_del is invoked before the key is removed
PropertyOnDelCallbackFirst(r, st, key) ==
    LET value == DictGet(st, key)
        st2 == DictPop(st, key)
    IN  Outcome(st2,
                <<Event("on_del", r.on_del, key, <<value>>, NoneValue,
                        key \in DOMAIN st, NoRequest)>>,
                NoneValue, "")

\* ResolverProperty.on_del, lines 70-74
PropertyOnDel(r, st, key) ==
    LET value == DictGet(st, key)
        st2 == DictPop(st, key)
    IN  Outcome(st2,
                <<Event("on_del", r.on_del, key, <<value>>, NoneValue,
                        key \in DOMAIN st2, NoRequest)>>,
                NoneValue, "")

\* mutation: the result is inserted in the state dict directly
ExecuteDirectInsert(r, st, key, request, raw) ==
    LET req2 == IF r.pre_execute = "user.pre_execute"
                THEN [request EXCEPT !.mutated = TRUE] ELSE request
        processed == IF r.post_execute = "user.post_execute"
                     THEN UserPostExecute(raw) ELSE raw
        present == key \in DOMAIN st
        pre == Event("pre_execute", r.pre_execute, key, <<>>, NoneValue,
                     present, request)
        on == Event("on_execute", r.on_execute, key, <<>>, raw, present, req2)
        post == Event("post_execute", r.post_execute, key, <<raw>>, processed,
                      present, req2)
    IN  IF r.on_execute = "Resolver.on_execute"
        THEN Outcome(st, <<pre, [on EXCEPT !.ret = NoneValue]>>, NoneValue,
                     "NotImplementedError")
        ELSE Outcome(DictSet(st, key, processed), <<pre, on, post>>,
                     processed, "")

\* Resolver.execute, lines 264-286; raw is what a user's on_execute returns
Execute(r, st, key, request, raw) ==
    LET req2 == IF r.pre_execute = "user.pre_execute"
                THEN [request EXCEPT !.mutated = TRUE] ELSE request
        processed == IF r.post_execute = "user.post_execute"
                     THEN UserPostExecute(raw) ELSE raw
        present == key \in DOMAIN st
        pre == Event("pre_execute", r.pre_execute, key, <<>>, NoneValue,
                     present, request)
        on == Event("on_execute", r.on_execute, key, <<>>, raw, present, req2)
        post == Event("post_execute", r.post_execute, key, <<raw>>, processed,
                      present, req2)
        set == PropertyOnSet(r, st, key, processed)
    IN  IF r.on_execute = "Resolver.on_execute"
        THEN Outcome(st, <<pre, [on EXCEPT !.ret = NoneValue]>>, NoneValue,
                     "NotImplementedError")
        ELSE Outcome(set.state, <<pre, on, post>> \o set.log,
                     set.state[key], "")

\* mutation: the lazily computed value is returned but not executed through
\* the resolver nor stored
PropertyOnGetNoExecute(r, st, key, raw) ==
    LET get(value, present) ==
            Event("on_get", r.on_get, key, <<value>>, NoneValue, present,
                  NoRequest)
    IN  IF key \in DOMAIN st
        THEN Outcome(st, <<get(st[key], TRUE)>>, st[key], "")
        ELSE IF r.lazy
        THEN Outcome(st, <<get(raw, FALSE)>>, raw, "")
        ELSE Outcome(st, <<>>, NoneValue, "AttributeError")

\* mutation: a lazy resolver is executed on every read, also when the key is
\* in the state
PropertyOnGetNoCache(r, st, key, raw) ==
    LET get(value, present) ==
            Event("on_get", r.on_get, key, <<value>>, NoneValue, present,
                  NoRequest)
        ex == Execute(r, st, key, LazyRequest(key), raw)
        set == PropertyOnSet(r, ex.state, key, ex.ret)
    IN  IF r.lazy
        THEN IF ex.exc # ""
             THEN ex
             ELSE Outcome(set.state, ex.log \o set.log \o <<get(ex.ret, TRUE)>>,
                          ex.ret, "")
        ELSE IF key \in DOMAIN st
        THEN Outcome(st, <<get(st[key], TRUE)>>, st[key], "")
        ELSE Outcome(st, <<>>, NoneValue, "AttributeError")

\* mutation: a key that is absent is resolved whether the resolver is lazy
\* or not
PropertyOnGetIgnoreLazy(r, st, key, raw) ==
    LET get(value, present) ==
            Event("on_get", r.on_get, key, <<value>>, NoneValue, present,
                  NoRequest)
        ex == Execute(r, st, key, LazyRequest(key), raw)
        set == PropertyOnSet(r, ex.state, key, ex.ret)
    IN  IF key \in DOMAIN st
        THEN Outcome(st, <<get(st[key], TRUE)>>, st[key], "")
        ELSE IF ex.exc # ""
        THEN ex
        ELSE Outcome(set.state, ex.log \o set.log \o <<get(ex.ret, TRUE)>>,
                     ex.ret, "")

\* ResolverProperty.on_get, lines 37-61
PropertyOnGet(r, st, key, raw) ==
    LET get(value, present) ==
            Event("on_get", r.on_get, key, <<value>>, NoneValue, present,
                  NoRequest)
        ex == Execute(r, st, key, LazyRequest(key), raw)
        set == PropertyOnSet(r, ex.state, key, ex.ret)
    IN  IF key \in DOMAIN st
        THEN Outcome(st, <<get(st[key], TRUE)>>, st[key], "")
        ELSE IF r.lazy
        THEN IF ex.exc # ""
             THEN ex
             ELSE Outcome(set.state, ex.log \o set.log \o <<get(ex.ret, TRUE)>>,
                          ex.ret, "")
        ELSE Outcome(st, <<>>, NoneValue, "AttributeError")

NoOp == [op |-> "", key |-> "", value |-> 0]

InitProp ==
    /\ ppc = "new"
    /\ presolver = NewResolver(TRUE, FALSE, "none", FALSE, FALSE, "none", FALSE)
    /\ pstate = [k \in {} |-> NoneValue]
    /\ ppre = [k \in {} |-> NoneValue]
    /\ pop = NoOp
    /\ plog = <<>>
    /\ pret = [value |-> NoneValue, exc |-> ""]
    /\ plazy = [k \in {} |-> NoneValue]

\* Resolver.__init__: the resolvers of the owner's class are constructed
Construct ==
    /\ ppc = "new"
    /\ \E lazy, pre, post, onGet, onDel \in BOOLEAN,
          onExec \in OnExecuteArgs, onSet \in OnSetKinds :
          presolver' = NewResolver(lazy, pre, onExec, post, onGet, onSet, onDel)
    /\ ppc' = "bound"
    /\ UNCHANGED <<pstate, ppre, pop, plog, pret, plazy>>
    /\ UNCHANGED notPropVars

Finish(op, out) ==
    /\ pop' = op
    /\ ppre' = pstate
    /\ pstate' = out.state
    /\ plog' = out.log
    /\ pret' = [value |-> out.ret, exc |-> out.exc]
    /\ plazy' = IF op.op # "read" THEN DictPop(plazy, op.key)
                ELSE IF op.key \notin DOMAIN pstate /\ out.exc = ""
                THEN DictSet(plazy, op.key, out.ret)
                ELSE plazy
    /\ UNCHANGED <<ppc, presolver>>
    /\ UNCHANGED notPropVars

\* value = owner.<key>
Read ==
    /\ ppc = "bound"
    /\ \E key \in PropKeys, raw \in Values :
          Finish([op |-> "read", key |-> key, value |-> raw],
                 PropertyOnGet(presolver, pstate, key, raw))

\* owner.<key> = value
Write ==
    /\ ppc = "bound"
    /\ \E key \in PropKeys, value \in {NoneValue} \cup Values :
          Finish([op |-> "write", key |-> key, value |-> value],
                 PropertyOnSet(presolver, pstate, key, value))

\* del owner.<key>
Delete ==
    /\ ppc = "bound"
    /\ \E key \in PropKeys :
          Finish([op |-> "delete", key |-> key, value |-> NoneValue],
                 PropertyOnDel(presolver, pstate, key))

\* resolver.execute(request), called by a query executor
ExecuteRequest ==
    /\ ppc = "bound"
    /\ \E key \in PropKeys, raw \in Values :
          Finish([op |-> "execute", key |-> key, value |-> raw],
                 Execute(presolver, pstate, key, LazyRequest(key), raw))

NextProp ==
    \/ Construct
    \/ Read
    \/ Write
    \/ Delete
    \/ ExecuteRequest

\* ------------------------------------------------------------------------
\* Assignment to a relationship: RelationshipProperty.build
\* (src/pybiz/biz/internal/relationship_property.py) and
\* BizObjectMeta.build_properties.build_rel_property (src/pybiz/biz.py)
\* ------------------------------------------------------------------------

\* the largest identity of a related object given to an assignment
MaxRelId == 2

\* the longest list given to an assignment
MaxRelLen == 2

RelIds == 1..MaxRelId

\* the values of an assignment and of the store: nothing stored, None, one
\* object, a list, a dict from identities to objects, a BizList
Value(kind, items) == [kind |-> kind, items |-> items]

Unset == Value("unset", <<>>)

RelLists == UNION {[1..n -> RelIds] : n \in 0..MaxRelLen}

AssignValues ==
    {Value("none", <<>>)}
    \cup {Value("object", <<i>>) : i \in RelIds}
    \cup {Value("list", l) : l \in RelLists}
    \cup {Value("dict", <<i>>) : i \in RelIds}

AssignOutcome(related, fk, log, exc) ==
    [related |-> related, fk |-> fk, log |-> log, exc |-> exc]

\* RelationshipProperty.set_foreign_keys, lines 131-137, for a relationship
\* whose first condition is an equality with the related object's _id
SetForeignKeys(value) ==
    IF value.kind = "object" THEN value.items[1] ELSE NoneValue

\* fset, lines 75-78: None becomes an empty BizList on a many relationship,
\* and any sequence becomes a BizList
FsetCoerce(rel, value) ==
    IF value.kind = "none" /\ rel.many THEN Value("bizlist", <<>>)
    ELSE IF value.kind = "list" THEN Value("bizlist", value.items)
    ELSE value

\* fset, lines 80-98: the ValueError of a scalar / sequence mismatch
FsetMismatch(rel, coerced) ==
    LET is_scalar == coerced.kind # "bizlist"
        expect_scalar == ~rel.many
    IN  (is_scalar /\ ~expect_scalar) \/ (~is_scalar /\ expect_scalar)

\* mutation: the value is stored before the mismatch is detected
PropertyFsetStoreFirst(rel, related, fk, value) ==
    LET coerced == FsetCoerce(rel, value)
    IN  IF rel.readonly
        THEN AssignOutcome(related, fk, <<>>, "RelationshipError")
        ELSE IF FsetMismatch(rel, coerced)
        THEN AssignOutcome(coerced, fk, <<>>, "ValueError")
        ELSE AssignOutcome(coerced,
                           IF ~rel.many /\ rel.conditions
                           THEN SetForeignKeys(coerced) ELSE fk,
                           <<coerced>>, "")

\* RelationshipProperty.build.fset, lines 65-105
PropertyFset(rel, related, fk, value) ==
    LET coerced == FsetCoerce(rel, value)
    IN  IF rel.readonly
        THEN AssignOutcome(related, fk, <<>>, "RelationshipError")
        ELSE IF FsetMismatch(rel, coerced)
        THEN AssignOutcome(related, fk, <<>>, "ValueError")
        ELSE AssignOutcome(coerced,
                           IF ~rel.many /\ rel.conditions
                           THEN SetForeignKeys(coerced) ELSE fk,
                           <<coerced>>, "")

\* RelationshipProperty.build.fdel, lines 107-118
PropertyFdel(rel, related, fk) ==
    IF rel.readonly
    THEN AssignOutcome(related, fk, <<>>, "RelationshipError")
    ELSE IF related = Unset
    THEN AssignOutcome(related, fk, <<>>, "KeyError")
    ELSE AssignOutcome(Unset, fk, <<related>>, "")

\* build_rel_property.fset, biz.py lines 131-142
MetaFset(rel, related, fk, value) ==
    LET is_sequence == value.kind = "list"
    IN  IF ~is_sequence
        THEN IF rel.many
             THEN AssignOutcome(related, fk, <<>>, "ValueError")
             ELSE AssignOutcome(value, fk, <<>>, "")
        ELSE IF ~rel.many
             THEN AssignOutcome(related, fk, <<>>, "ValueError")
             ELSE AssignOutcome(value, fk, <<>>, "")

\* build_rel_property.fdel, biz.py lines 144-145
MetaFdel(rel, related, fk) ==
    IF related = Unset
    THEN AssignOutcome(related, fk, <<>>, "KeyError")
    ELSE AssignOutcome(Unset, fk, <<>>, "")

NoAssign == [op |-> "", value |-> Unset]

InitAssign ==
    /\ apc = "new"
    /\ aimpl = ""
    /\ arel = [many |-> FALSE, readonly |-> FALSE, conditions |-> FALSE]
    /\ arelated = Unset
    /\ afk = NoneValue
    /\ aprev = [related |-> Unset, fk |-> NoneValue]
    /\ aop = NoAssign
    /\ alog = <<>>
    /\ aexc = ""

\* the relationship is declared on the owner's class; the class built by
\* BizObjectMeta knows neither readonly nor conditions
Declare ==
    /\ apc = "new"
    /\ \E impl \in {"property", "meta"}, many, readonly, conditions \in BOOLEAN :
          /\ impl = "meta" => (~readonly /\ ~conditions)
          /\ aimpl' = impl
          /\ arel' = [many |-> many, readonly |-> readonly,
                      conditions |-> conditions]
    /\ apc' = "declared"
    /\ UNCHANGED <<arelated, afk, aprev, aop, alog, aexc>>
    /\ UNCHANGED notAssignVars

AssignFinish(op, out) ==
    /\ aop' = op
    /\ aprev' = [related |-> arelated, fk |-> afk]
    /\ arelated' = out.related
    /\ afk' = out.fk
    /\ alog' = out.log
    /\ aexc' = out.exc
    /\ UNCHANGED <<apc, aimpl, arel>>
    /\ UNCHANGED notAssignVars

\* owner.<relationship> = value, through RelationshipProperty
PropertyAssign ==
    /\ apc = "declared"
    /\ aimpl = "property"
    /\ \E value \in AssignValues :
          AssignFinish([op |-> "set", value |-> value],
                       PropertyFset(arel, arelated, afk, value))

\* del owner.<relationship>, through RelationshipProperty
PropertyDelete ==
    /\ apc = "declared"
    /\ aimpl = "property"
    /\ AssignFinish([op |-> "del", value |-> Unset],
                    PropertyFdel(arel, arelated, afk))

\* owner.<relationship> = value, through the property of BizObjectMeta
MetaAssign ==
    /\ apc = "declared"
    /\ aimpl = "meta"
    /\ \E value \in AssignValues :
          AssignFinish([op |-> "set", value |-> value],
                       MetaFset(arel, arelated, afk, value))

\* del owner.<relationship>, through the property of BizObjectMeta
MetaDelete ==
    /\ apc = "declared"
    /\ aimpl = "meta"
    /\ AssignFinish([op |-> "del", value |-> Unset],
                    MetaFdel(arel, arelated, afk))

NextAssign ==
    \/ Declare
    \/ PropertyAssign
    \/ PropertyDelete
    \/ MetaAssign
    \/ MetaDelete

\* ------------------------------------------------------------------------
\* Resolver.bind (src/pybiz/biz/resolver/resolver.py) and
\* Relationship.on_bind (src/ravel/resolver/resolvers/relationship.py)
\* ------------------------------------------------------------------------

\* the most bind calls made on one resolver
MaxBinds == 3

BizClasses == {"Dog", "Person"}

\* a resource type, or the batch type of a resource type
TypeRef(cls, batch) == [cls |-> cls, batch |-> batch]

NoType == TypeRef("", FALSE)

TypeRefs == {TypeRef(cls, batch) : cls \in BizClasses, batch \in BOOLEAN}

\* the target_biz_class argument: None, a type, or a callback returning one
TargetArgs ==
    {[form |-> "none", type |-> NoType]}
    \cup {[form |-> f, type |-> t] : f \in {"class", "callback"}, t \in TypeRefs}

\* the join argument of a Relationship: a list of pairs (type is the owner
\* of the last right-hand field), or a callback returning one; "none" for a
\* plain Resolver
JoinArgs ==
    {[form |-> f, type |-> t] : f \in {"list", "callback"}, t \in TypeRefs}

NoJoin == [form |-> "none", type |-> NoType]

\* Resolver.__init__, lines 54-72, and Relationship.__init__, lines 11-19;
\* the target_biz_class setter (lines 139-157) makes many follow the type
NewBoundResolver(kind, many, targ, join) ==
    [ kind |-> kind,
      callback |-> IF targ.form = "callback" THEN targ.type ELSE NoType,
      target |-> IF targ.form = "class" THEN targ.type.cls ELSE "",
      many |-> IF targ.form = "class" THEN targ.type.batch ELSE many,
      join_callback |-> IF join.form = "callback" THEN join.type ELSE NoType,
      is_bound |-> FALSE ]

\* Resolver.bind, lines 124-130, with Relationship.on_bind, lines 32-42, as
\* the on_bind of a Relationship
BindOutcome(r) ==
    LET r1 == IF r.callback # NoType
              THEN [r EXCEPT !.target = r.callback.cls,
                             !.many = r.callback.batch]
              ELSE r
        calls == IF r.callback # NoType THEN 1 ELSE 0
    IN  IF r.kind = "Resolver"
        THEN [res |-> [r1 EXCEPT !.is_bound = TRUE], calls |-> calls,
              joincalls |-> 0, exc |-> ""]
        ELSE IF r.join_callback = NoType
        THEN \* self.join_callback() on None
             [res |-> r1, calls |-> calls, joincalls |-> 0, exc |-> "TypeError"]
        ELSE [res |-> [r1 EXCEPT !.target = r.join_callback.cls,
                                 !.many = r.join_callback.batch,
                                 !.is_bound = TRUE],
              calls |-> calls, joincalls |-> 1, exc |-> ""]

InitBind ==
    /\ bpc = "new"
    /\ bres = NewBoundResolver("Resolver", FALSE,
                               [form |-> "none", type |-> NoType], NoJoin)
    /\ bprev = bres
    /\ bbinds = 0
    /\ bcalls = 0
    /\ bjoincalls = 0
    /\ bexc = ""

\* a Resolver or a Relationship is constructed
BuildResolver ==
    /\ bpc = "new"
    /\ \E many \in BOOLEAN, targ \in TargetArgs :
          \/ bres' = NewBoundResolver("Resolver", many, targ, NoJoin)
          \/ \E join \in JoinArgs :
                bres' = NewBoundResolver("Relationship", many, targ, join)
    /\ bprev' = bres'
    /\ bpc' = "built"
    /\ UNCHANGED <<bbinds, bcalls, bjoincalls, bexc>>
    /\ UNCHANGED notBindVars

\* resolver.bind(biz_class)
Bind ==
    /\ bpc = "built"
    /\ bbinds < MaxBinds
    /\ LET out == BindOutcome(bres)
       IN  /\ bres' = out.res
           /\ bcalls' = bcalls + out.calls
           /\ bjoincalls' = bjoincalls + out.joincalls
           /\ bexc' = out.exc
    /\ bprev' = bres
    /\ bbinds' = bbinds + 1
    /\ UNCHANGED bpc
    /\ UNCHANGED notBindVars

NextBind ==
    \/ BuildResolver
    \/ Bind

\* ------------------------------------------------------------------------
\* QuerySpecification (src/pybiz/biz/internal/query.py)
\* ------------------------------------------------------------------------

\* the largest magnitude of a limit or an offset given by a caller
MaxQueryInt == 2

\* the schema of the queried type: its field names, the required ones, and
\* the source of each field
QueryFields == {ID, "name", "color"}

QueryRequired == {"name"}

Source(k) == IF k = "color" THEN "hue" ELSE k

\* the names a caller selects: '*', fields, a relationship (alone, or with
\* a field of the related type), a view, and a name the type does not have
QueryNames == {"*", "color", "owner", "owner.name", "summary", "bogus"}

QueryViews == {"summary"}

\* limit and offset: None is the empty set, n is {n}
OptInts == {{}} \cup {{n} : n \in (0 - MaxQueryInt)..MaxQueryInt}

Min(a, b) == IF a <= b THEN a ELSE b

Max(a, b) == IF a >= b THEN a ELSE b

\* QuerySpecification.__init__, lines 28-56. aliased tells whether the
\* fields attribute is still the set held by _tuplized_attrs (tuple_fields)
NewSpecification(fields, limit, offset) ==
    [ fields |-> fields,
      tuple_fields |-> fields,
      aliased |-> TRUE,
      relationships |-> [k \in {} |-> {}],
      views |-> {},
      limit |-> {Min(1, n) : n \in limit},
      offset |-> {Max(0, n) : n \in offset} ]

EmptySpecification == NewSpecification({}, {}, {})

\* fields.add / fields.update: in place, so seen through the tuple while
\* the attribute is the tuple's set
AddFields(spec, more) ==
    [spec EXCEPT !.fields = @ \cup more,
                 !.tuple_fields = IF spec.aliased THEN @ \cup more ELSE @]

\* spec.fields = <a new set>
AssignFields(spec, new) == [spec EXCEPT !.fields = new, !.aliased = FALSE]

\* build_recursive, lines 81-100, on the names unflattened by
\* DictUtils.unflatten_keys; the related type of owner has the field name
BuildRecursive(names) ==
    LET s0 == IF "*" \in names
              THEN AssignFields(EmptySpecification,
                                {Source(f) : f \in QueryFields})
              ELSE EmptySpecification
        s1 == AddFields(s0, {Source(k) : k \in names \cap QueryFields})
        rels == IF "owner.name" \in names THEN ("owner" :> {"name"})
                ELSE IF "owner" \in names THEN ("owner" :> {})
                ELSE [k \in {} |-> {}]
    IN  [s1 EXCEPT !.relationships = rels,
                   !.views = names \cap QueryViews]

\* mutation: only the identity field is forced into fields
ForceFieldsIdOnly(spec) == AddFields(spec, {Source(ID)})

\* build, lines 133-137: required fields and _id are always specified
ForceFields(spec) ==
    AddFields(AddFields(spec, {Source(f) : f \in QueryRequired}), {Source(ID)})

BuildResult(spec, exc) == [spec |-> spec, exc |-> exc]

\* build, lines 102-111: spec is a QuerySpecification
BuildFromSpec(spec, fields) ==
    LET s1 == IF "*" \in spec.fields THEN AssignFields(spec, QueryFields)
              ELSE spec
        tmp == BuildRecursive(fields)
        s2 == IF fields # {}
              THEN [AddFields(s1, tmp.fields) EXCEPT
                       !.relationships = tmp.relationships @@ @,
                       !.views = @ \cup tmp.views]
              ELSE s1
    IN  BuildResult(ForceFields(s2), "")

\* build, lines 112-116: spec is a dict
BuildFromDict(keys, fields) ==
    BuildResult(ForceFields(BuildRecursive(keys \cup fields)), "")

\* build, lines 117-124: spec is a list, a tuple or a set; only a set has
\* the update method line 122 calls
BuildFromSequence(kind, names, fields) ==
    IF fields # {} /\ kind # "set"
    THEN BuildResult(EmptySpecification, "AttributeError")
    ELSE BuildResult(ForceFields(BuildRecursive(names \cup fields)), "")

\* build, lines 125-132: spec is None or empty
BuildFromNothing(fields) ==
    IF fields # {}
    THEN BuildResult(ForceFields(BuildRecursive(fields)), "")
    ELSE BuildResult(
             ForceFields(NewSpecification({Source(f) : f \in QueryFields},
                                          {}, {})), "")

\* a caller does not name a relationship both alone and with a nested field
NameSets == {N \in SUBSET QueryNames : ~({"owner", "owner.name"} \subseteq N)}

FieldsArgs == {N \in NameSets : N \subseteq {"color", "owner.name", "summary"}}

NoQueryInput == [form |-> "", names |-> {}, fields |-> {}]

InitQuery ==
    /\ qpc = "idle"
    /\ qspec = EmptySpecification
    /\ qinput = NoQueryInput
    /\ qexc = ""

\* QuerySpecification(fields=..., limit=..., offset=...)
MakeSpecification ==
    /\ qpc = "idle"
    /\ \E names \in NameSets, limit \in OptInts, offset \in OptInts :
          /\ qspec' = NewSpecification(names, limit, offset)
          /\ qinput' = [form |-> "init", names |-> names, fields |-> {}]
    /\ qpc' = "made"
    /\ UNCHANGED qexc
    /\ UNCHANGED notQueryVars

BuildFinish(input, out) ==
    /\ qinput' = input
    /\ qspec' = out.spec
    /\ qexc' = out.exc
    /\ qpc' = "built"
    /\ UNCHANGED notQueryVars

\* QuerySpecification.build(spec, biz_type, fields) on a specification
BuildSpec ==
    /\ qpc = "made"
    /\ \E fields \in FieldsArgs :
          BuildFinish([form |-> "spec", names |-> qspec.fields, fields |-> fields],
                      BuildFromSpec(qspec, fields))

\* QuerySpecification.build(spec, biz_type, fields) on a dict
BuildDict ==
    /\ qpc = "idle"
    /\ \E names \in NameSets, fields \in FieldsArgs :
          BuildFinish([form |-> "dict", names |-> names, fields |-> fields],
                      BuildFromDict(names, fields))

\* QuerySpecification.build(spec, biz_type, fields) on a sequence of names
BuildSequence ==
    /\ qpc = "idle"
    /\ \E kind \in {"list", "tuple", "set"}, names \in NameSets \ {{}},
          fields \in FieldsArgs :
          BuildFinish([form |-> kind, names |-> names, fields |-> fields],
                      BuildFromSequence(kind, names, fields))

\* QuerySpecification.build(None, biz_type, fields)
BuildNothing ==
    /\ qpc = "idle"
    /\ \E fields \in FieldsArgs :
          BuildFinish([form |-> "none", names |-> {}, fields |-> fields],
                      BuildFromNothing(fields))

NextQuery ==
    \/ MakeSpecification
    \/ BuildSpec
    \/ BuildDict
    \/ BuildSequence
    \/ BuildNothing

\* ------------------------------------------------------------------------
\* Predicates and their rendering (src/pybiz/predicate.py)
\* ------------------------------------------------------------------------

\* the most conditional predicates held by the predicates built so far
MaxLeaves == 3

\* OP_CODE, lines 10-21
CompareOps == {"eq", "neq", "gt", "lt", "geq", "leq", "in", "ex"}

BooleanOps == {"and", "or"}

\* OP_CODE_2_DISPLAY_STRING, lines 23-34
DisplayString(op) ==
    CASE op = "eq" -> "=="
      [] op = "neq" -> "!="
      [] op = "gt" -> ">="
      [] op = "lt" -> "<="
      [] op = "geq" -> ">="
      [] op = "leq" -> "<="
      [] op = "in" -> "IN"
      [] op = "ex" -> "NOT IN"
      [] op = "and" -> "AND"
      [] op = "or" -> "OR"

\* ConditionalPredicate(op, prop, value); prop "" is no property
Conditional(op, prop, value) ==
    [kind |-> "cond", op |-> op, prop |-> prop, value |-> value]

\* BooleanPredicate(op, lhs, rhs)
Boolean(op, lhs, rhs) == [kind |-> "bool", op |-> op, lhs |-> lhs, rhs |-> rhs]

\* the conditional predicates a caller builds: each comparison on User.age,
\* and one without a property
Conditionals ==
    {Conditional(op, "User.age", "1") : op \in CompareOps}
    \cup {Conditional("eq", "", "1")}

RECURSIVE Leaves(_)
Leaves(p) == IF p.kind = "cond" THEN 1 ELSE Leaves(p.lhs) + Leaves(p.rhs)

RECURSIVE StackLeaves(_)
StackLeaves(st) ==
    IF st = <<>> THEN 0 ELSE Leaves(Head(st)) + StackLeaves(Tail(st))

\* ConditionalPredicate.__str__, lines 69-76
ConditionalStr(p) ==
    <<"(", IF p.prop # "" THEN p.prop ELSE "[NULL]", DisplayString(p.op),
      p.value, ")">>

\* BooleanPredicate._build_string, lines 128-143
RECURSIVE BuildString(_)
BuildString(p) ==
    <<"(">>
    \o (IF p.lhs.kind = "bool" THEN BuildString(p.lhs) ELSE ConditionalStr(p.lhs))
    \o <<DisplayString(p.op)>>
    \o (IF p.rhs.kind = "bool" THEN BuildString(p.rhs) ELSE ConditionalStr(p.rhs))
    \o <<")">>

\* str(predicate)
Str(p) == IF p.kind = "bool" THEN BuildString(p) ELSE ConditionalStr(p)

InitPred ==
    /\ xstack = <<>>
    /\ xstr = <<>>

\* a comparison on a field property builds a ConditionalPredicate
Compare ==
    /\ StackLeaves(xstack) < MaxLeaves
    /\ \E p \in Conditionals : xstack' = Append(xstack, p)
    /\ xstr' = <<>>
    /\ UNCHANGED notPredVars

\* lhs & rhs and lhs | rhs: __and__ and __or__, lines 78-82 and 114-118
Combine ==
    /\ Len(xstack) >= 2
    /\ \E op \in BooleanOps :
          xstack' = Append(SubSeq(xstack, 1, Len(xstack) - 2),
                           Boolean(op, xstack[Len(xstack) - 1],
                                   xstack[Len(xstack)]))
    /\ xstr' = <<>>
    /\ UNCHANGED notPredVars

\* str() of the newest predicate
Render ==
    /\ xstack # <<>>
    /\ xstr = <<>>
    /\ xstr' = Str(xstack[Len(xstack)])
    /\ UNCHANGED xstack
    /\ UNCHANGED notPredVars

NextPred ==
    \/ Compare
    \/ Combine
    \/ Render

\* ------------------------------------------------------------------------
\* Resources written through FilesystemDao (src/pybiz/dao/filesystem_dao.py)
\* ------------------------------------------------------------------------

\* explicit and generated ids are 1 .. MaxId
MaxId == 2

\* revisions are 0 .. MaxRev
MaxRev == 2

\* values of the name field are 1 .. MaxName
MaxName == 2

NAME == "name"

ThingIds == 1 .. MaxId

ThingRevs == 0 .. MaxRev

ThingNames == 1 .. MaxName

\* a value of a record: None is the empty set, v is {v}
OptIds == {{}} \cup {{i} : i \in ThingIds}

OptRevs == {{}} \cup {{r} : r \in ThingRevs}

EmptyDict == [k \in {} |-> {}]

\* the directory: one file per formatted id, an absent file is the empty dict
NoFiles == [f \in OptIds |-> EmptyDict]

\* FilesystemDao.exists
Exists(files, id) == DOMAIN files[id] # {}

\* DictUtils.merge(base, data) on flat records: the values of data win
DictMerge(base, data) ==
    [k \in DOMAIN base \cup DOMAIN data |->
        IF k \in DOMAIN data THEN data[k] ELSE base[k]]

DaoOutcome(files, record, exc) == [files |-> files, record |-> record, exc |-> exc]

\* FilesystemDao.update(_id, data).  insert_defaults adds nothing to a Thing
\* record: none of its fields declares a default.  formats tells whether the
\* file type can format the name of the file of a None id.
FilesystemUpdate(files, id, data, formats) ==
    LET base == files[id]
        merged == IF DOMAIN base # {} THEN DictMerge(base, data) ELSE data
        withId == IF ID \notin DOMAIN merged THEN DictSet(merged, ID, id) ELSE merged
        record == IF REV \notin DOMAIN withId
                  THEN DictSet(withId, REV, {0})
                  ELSE DictSet(withId, REV, {r + 1 : r \in withId[REV]})
    IN  IF id = {} /\ ~formats
        THEN DaoOutcome(files, data, "TypeError")
        ELSE IF REV \in DOMAIN withId /\ withId[REV] = {}
        THEN DaoOutcome(files, data, "TypeError")
        ELSE DaoOutcome([files EXCEPT ![id] = record], record, "")

\* FilesystemDao.create_id: record.get('_id', uuid.uuid4().hex)
CreateId(record, uuid) == IF ID \in DOMAIN record THEN record[ID] ELSE {uuid}

\* uuid.uuid4().hex: an id no file has; unused when the record has an _id
Uuids(files, record) ==
    IF ID \in DOMAIN record THEN {0}
    ELSE {i \in ThingIds : ~Exists(files, {i})}

\* FilesystemDao.create(record)
FilesystemCreate(files, record, uuid, formats) ==
    LET id == CreateId(record, uuid)
        out == FilesystemUpdate(files, id, record, formats)
    IN  IF out.exc # "" THEN out
        ELSE DaoOutcome(out.files, DictSet(out.record, ID, id), "")

\* the revisions the state of the resource holds
HeldRevs(st) == IF REV \in DOMAIN st THEN st[REV] ELSE {}

\* the revision the next write of the file of id stores
NextRev(files, id) ==
    IF REV \in DOMAIN files[id] /\ files[id][REV] # {}
    THEN (CHOOSE r \in files[id][REV] : TRUE) + 1
    ELSE 0

NoCrud == [name |-> "none", pre |-> EmptyDict]

InitCrud ==
    /\ cpc = "none"
    /\ cfiles = NoFiles
    /\ cstate = EmptyDict
    /\ cdirty = {}
    /\ cheld = {}
    /\ cop = NoCrud
    /\ cexc = ""

\* Thing(name=n) or Thing(_id=i, name=n): every supplied field is dirty
NewThing ==
    /\ cpc = "none"
    /\ \E supplied \in BOOLEAN, id \in OptIds, n \in ThingNames :
          /\ cstate' = IF supplied THEN [k \in {ID, NAME} |-> IF k = ID THEN id ELSE {n}]
                       ELSE [k \in {NAME} |-> {n}]
          /\ cdirty' = IF supplied THEN {ID, NAME} ELSE {NAME}
          /\ cop' = [name |-> "new", pre |-> cstate]
    /\ cpc' = "new"
    /\ cheld' = {}
    /\ cexc' = ""
    /\ UNCHANGED cfiles
    /\ UNCHANGED notCrudVars

\* thing._rev = v, thing._id = None, thing.name = v: the key becomes dirty
SetField ==
    /\ cpc # "none"
    /\ \E key \in {ID, REV, NAME} :
       \E v \in (IF key = ID THEN {{}}
                 ELSE IF key = REV THEN OptRevs
                 ELSE {{n} : n \in ThingNames}) :
          /\ cstate' = DictSet(cstate, key, v)
          /\ cdirty' = cdirty \cup {key}
          /\ cop' = [name |-> "set", pre |-> cstate]
    /\ cheld' = cheld \cup HeldRevs(cstate)
    /\ cexc' = ""
    /\ UNCHANGED <<cpc, cfiles>>
    /\ UNCHANGED notCrudVars

\* thing.mark(): every key of the state becomes dirty
Mark ==
    /\ cpc # "none"
    /\ cdirty' = DOMAIN cstate
    /\ cop' = [name |-> "mark", pre |-> cstate]
    /\ cheld' = cheld \cup HeldRevs(cstate)
    /\ cexc' = ""
    /\ UNCHANGED <<cpc, cfiles, cstate>>
    /\ UNCHANGED notCrudVars

CrudFinish(name, out) ==
    /\ cop' = [name |-> name, pre |-> cstate]
    /\ cheld' = cheld \cup HeldRevs(cstate)
    /\ cexc' = out.exc
    /\ cfiles' = out.files
    /\ IF out.exc = ""
       THEN /\ cstate' = DictMerge(cstate, out.record)
            /\ cdirty' = {}
       ELSE UNCHANGED <<cstate, cdirty>>
    /\ UNCHANGED cpc
    /\ UNCHANGED notCrudVars

\* thing.create(): the state, without the revision the Store is to generate,
\* goes to FilesystemDao.create; the record it returns is merged into the
\* state and the resource is clean
CreateThing ==
    /\ cpc # "none"
    /\ \E uuid \in Uuids(cfiles, cstate), formats \in BOOLEAN :
          LET record == DictPop(cstate, REV)
              id == CreateId(record, uuid)
          IN  /\ NextRev(cfiles, id) <= MaxRev
              /\ CrudFinish("create",
                            FilesystemCreate(cfiles, record, uuid, formats))

\* thing.update(): the dirty fields, without the in-memory revision, go to
\* FilesystemDao.update under the id of the resource
UpdateThing ==
    /\ cpc # "none"
    /\ ID \in DOMAIN cstate
    /\ \E formats \in BOOLEAN :
          LET data == [k \in (cdirty \cap DOMAIN cstate) \ {REV} |-> cstate[k]]
              id == cstate[ID]
          IN  /\ NextRev(cfiles, id) <= MaxRev
              /\ CrudFinish("update", FilesystemUpdate(cfiles, id, data, formats))

NextCrud ==
    \/ NewThing
    \/ SetField
    \/ Mark
    \/ CreateThing
    \/ UpdateThing

\* ------------------------------------------------------------------------
\* Backfill in QueryExecutor (src/pybiz/biz/query/query_executor.py)
\* ------------------------------------------------------------------------

\* the most records a Dao query or a relationship returns
MaxFetched == 3

\* the largest limit of a query
MaxLimit == 3

\* the most objects one call of generate returns
MaxGenerated == 2

\* limit: None is the empty set, n is {n}
OptLimits == {{}} \cup {{n} : n \in 0..MaxLimit}

\* the fetched objects are 1, 2, ... in Dao order; the Dao applies the limit
Fetched(n) == [i \in 1..n |-> i]

\* the objects a backfiller generates are new ones: -1, -2, ...
Generated(g) == [i \in 1..g |-> 0 - i]

\* query.params.limit or 1
LimitOrOne(limit) == IF limit = {} \/ limit = {0} THEN 1 ELSE CHOOSE n \in limit : TRUE

\* QueryExecutor.execute, lines 58-71: targets after the backfill step; g is
\* the number of objects backfiller.generate returns when count is None
QueryExecutorExecute(targets, limit, backfiller, first, g) ==
    IF backfiller /\ Len(targets) < LimitOrOne(limit)
    THEN Generated(IF first THEN 1 ELSE g)
    ELSE targets

\* QueryExecutor._backfill_relationship, lines 163-182, on the BizList a many
\* relationship returned; g is the number of objects rel.generate returns
BackfillRelationship(target, limit, g) ==
    IF limit = {}
    THEN Generated(g)
    ELSE IF limit # {0} /\ Len(target) < LimitOrOne(limit)
    THEN target \o Generated(g)
    ELSE target

NoBackfill == [limit |-> {}, backfiller |-> FALSE, first |-> FALSE]

InitBackfill ==
    /\ fpc = "idle"
    /\ fparams = NoBackfill
    /\ ffetched = <<>>
    /\ ftargets = <<>>

\* the number of records a Dao query with this limit can return
FetchCounts(limit) ==
    {n \in 0..MaxFetched : limit = {} \/ \A l \in limit : l = 0 \/ n <= l}

\* executor.execute(query, backfiller=..., first=...)
ExecuteQuery ==
    /\ \E limit \in OptLimits, backfiller, first \in BOOLEAN, g \in 1..MaxGenerated :
       \E n \in FetchCounts(limit) :
          /\ fparams' = [limit |-> limit, backfiller |-> backfiller, first |-> first]
          /\ ffetched' = Fetched(n)
          /\ ftargets' = QueryExecutorExecute(Fetched(n), limit, backfiller, first, g)
    /\ fpc' = "execute"
    /\ UNCHANGED notBackfillVars

\* one source in QueryExecutor._execute_recursive, lines 115-129, for a many
\* relationship: rel.execute, then _backfill_relationship when there is a
\* backfiller
ExecuteRelationship ==
    /\ \E limit \in OptLimits, backfiller \in BOOLEAN, g \in 1..MaxGenerated :
       \E n \in FetchCounts(limit) :
          /\ fparams' = [limit |-> limit, backfiller |-> backfiller, first |-> FALSE]
          /\ ffetched' = Fetched(n)
          /\ ftargets' = IF backfiller THEN BackfillRelationship(Fetched(n), limit, g)
                         ELSE Fetched(n)
    /\ fpc' = "relationship"
    /\ UNCHANGED notBackfillVars

NextBackfill ==
    \/ ExecuteQuery
    \/ ExecuteRelationship

\* ---------------------------------------------------------------------------
\* Nested dump: NestingDumpMethod (src/pybiz/biz/dump.py lines 59-113)
\* ---------------------------------------------------------------------------

\* the resources of the dumped graph: resource o is related to o + 1 only
MaxNestObj == 2

\* largest `depth` argument given to NestingDumpMethod.dump
MaxNestDepth == 1

NestObjs == 1..MaxNestObj

\* bizobj.relationships, in the order of the class: owner is a scalar
\* relationship, friends is a many relationship; neither declares links, so
\* insert_relationship_fields (lines 48-56) adds nothing to the record
NestRels == <<"owner", "friends">>

\* the dotted keys a caller may give in `fields`, split at the dots
NestPaths ==
    { <<"name">>, <<"owner">>, <<"friends">>,
      <<"owner", "name">>, <<"owner", "owner">>,
      <<"friends", "name">>, <<"friends", "friends">>, <<"friends", "owner">> }

IsPrefix(p, q) == Len(p) < Len(q) /\ SubSeq(q, 1, Len(p)) = p

\* the `fields` arguments of the modelled calls: None or {} (the empty set),
\* or at most two dotted keys, none a prefix of the other
NestFields ==
    { F \in SUBSET NestPaths :
        /\ Cardinality(F) <= 2
        /\ \A p, q \in F : ~IsPrefix(p, q) }

\* DictUtils.unflatten_keys (line 68): {'a.b': True} becomes {'a': {'b': True}}
RECURSIVE UnflattenKeys(_)
UnflattenKeys(paths) ==
    DictSpec([k \in { p[1] : p \in paths } |->
                 IF <<k>> \in paths
                 THEN TrueSpec
                 ELSE UnflattenKeys({ Tail(p) : p \in { q \in paths : q[1] = k } })])

\* what `related` may hold for resource o: owner is not loaded (Absent),
\* None, or the next resource; friends is not loaded or a list of at most
\* the next resource
NestRelatedOf(o) ==
    [owner : {Absent, NoneValue} \cup (IF o < MaxNestObj THEN {o + 1} ELSE {}),
     floaded : BOOLEAN,
     friends : {<<>>} \cup (IF o < MaxNestObj THEN {<<o + 1>>} ELSE {})]

NestGraphs ==
    { g \in [NestObjs -> UNION { NestRelatedOf(o) : o \in NestObjs }] :
        \A o \in NestObjs :
            /\ g[o] \in NestRelatedOf(o)
            /\ (~g[o].floaded => g[o].friends = <<>>) }

\* line 92: k not in bizobj.related
NestUnloaded(g, o, k) ==
    IF k = "owner" THEN g[o].owner = Absent ELSE ~g[o].floaded

\* lines 67-72: the include of a call
NestInclude(fields, initial) ==
    IF initial
    THEN IF fields # {} THEN UnflattenKeys(fields) ELSE NoneSpec
    ELSE IF fields.t = "true" THEN NoneSpec ELSE fields

\* line 84: child_fields = include.get(k) if include else None
ChildFields(include, k) ==
    IF include.t = "dict" /\ DOMAIN include.sub # {} /\ k \in DOMAIN include.sub
    THEN include.sub[k]
    ELSE NoneSpec

\* lines 85-90: the depth of the nested call, Absent when the loop continues
NextDepth(child_fields, depth) ==
    IF child_fields.t = "dict" THEN 1
    ELSE IF depth > 0 THEN depth - 1
    ELSE Absent

\* line 93: `child_fields and k in child_fields`; on True the `in` raises
UnloadedError(child_fields, k) ==
    IF child_fields.t = "true" THEN "TypeError"
    ELSE IF child_fields.t = "dict" /\ k \in DOMAIN child_fields.sub
         THEN "Exception"
         ELSE ""

NoNestResult == [exc |-> "", keys |-> {}]

\* dump_fields (lines 23-46): the id and the included, loaded public fields
DumpFields(include) ==
    {"id"} \cup (IF include.t = "none" \/ "name" \in DOMAIN include.sub
                 THEN {"name"} ELSE {})

RECURSIVE NestingDump(_, _, _, _, _)
\* lines 80-111: one pass of the loop for relationship k of resource o: the
\* exception it raises, and the key it sets in the record
NestRel(g, o, depth, include, k) ==
    LET child_fields == ChildFields(include, k)
        next_depth == NextDepth(child_fields, depth)
        sub(x) == NestingDump(g, x, next_depth, child_fields, FALSE)
    IN  IF include.t = "dict" /\ k \notin DOMAIN include.sub
        THEN NoNestResult
        ELSE IF next_depth = Absent
        THEN NoNestResult
        ELSE IF NestUnloaded(g, o, k)
        THEN [exc |-> UnloadedError(child_fields, k), keys |-> {}]
        ELSE IF k = "owner"
        THEN IF g[o].owner = NoneValue
             THEN [exc |-> "", keys |-> {k}]
             ELSE [exc |-> sub(g[o].owner).exc, keys |-> {k}]
        ELSE IF g[o].friends = <<>>
             THEN [exc |-> "", keys |-> {k}]
             ELSE [exc |-> sub(g[o].friends[1]).exc, keys |-> {k}]

\* NestingDumpMethod.dump(bizobj, depth, fields, parent): an exception of a
\* relationship ends the call, the record is returned otherwise
NestingDump(g, o, depth, fields, initial) ==
    LET include == NestInclude(fields, initial)
        first == NestRel(g, o, depth, include, NestRels[1])
        second == NestRel(g, o, depth, include, NestRels[2])
    IN  IF first.exc # "" THEN [exc |-> first.exc, keys |-> {}]
        ELSE IF second.exc # "" THEN [exc |-> second.exc, keys |-> {}]
        ELSE [exc |-> "",
              keys |-> DumpFields(include) \cup first.keys \cup second.keys]

InitNest ==
    /\ npc = "idle"
    /\ nfields = {}
    /\ ndepth = 0
    /\ nrelated = [o \in NestObjs |->
                      [owner |-> Absent, floaded |-> FALSE, friends |-> <<>>]]
    /\ nresult = NoNestResult

\* a caller dumps resource 1 with NestingDumpMethod
NestDump ==
    /\ npc = "idle"
    /\ \E fields \in NestFields, depth \in 0..MaxNestDepth, g \in NestGraphs :
        /\ nfields' = fields
        /\ ndepth' = depth
        /\ nrelated' = g
        /\ nresult' = NestingDump(g, 1, depth, fields, TRUE)
    /\ npc' = "done"
    /\ UNCHANGED notNestVars

NextNest == NestDump

\* ---------------------------------------------------------------------------
\* Transaction middleware: SqlalchemyMiddleware
\* (src/pybiz/contrib/sqlalchemy/middleware.py) and ZodbDaoMiddleware
\* (src/pybiz/api/falcon/middleware/zodb.py)
\* ---------------------------------------------------------------------------

\* number of requests one application handles in the model
MaxRequests == 3

\* one call of a Store method and whether it returned (TRUE) or raised
StoreCall(name, ok) == [call |-> name, ok |-> ok]

\* the status codes of the modelled responses
Statuses == {200, 204, 302, 404, 500}

\* middleware.py lines 56-69: the Store calls of post_request, given the
\* exception of the endpoint and whether commit and rollback raise
PostRequestCallsNoFinally(exc, commit_fails, rollback_fails) ==
    (IF exc
     THEN <<StoreCall("rollback", ~rollback_fails)>>
     ELSE IF commit_fails
          THEN <<StoreCall("commit", FALSE), StoreCall("rollback", ~rollback_fails)>>
          ELSE <<StoreCall("commit", TRUE)>>)
    \o (IF (exc \/ commit_fails) /\ rollback_fails
        THEN <<>>
        ELSE <<StoreCall("close", TRUE)>>)

PostRequestCalls(exc, commit_fails, rollback_fails) ==
    (IF exc
     THEN <<StoreCall("rollback", ~rollback_fails)>>
     ELSE IF commit_fails
          THEN <<StoreCall("commit", FALSE), StoreCall("rollback", ~rollback_fails)>>
          ELSE <<StoreCall("commit", TRUE)>>)
    \o <<StoreCall("close", TRUE)>>

\* zodb.py lines 20-27: the calls of process_response for a status code
ProcessResponseCalls(status, commit_fails, rollback_fails) ==
    IF 200 <= status /\ status < 300
    THEN IF commit_fails
         THEN <<StoreCall("commit", FALSE), StoreCall("rollback", ~rollback_fails)>>
         ELSE <<StoreCall("commit", TRUE)>>
    ELSE <<StoreCall("rollback", ~rollback_fails)>>

\* the calls of a log made to one Store method
CallsOf(log, name) == { i \in 1..Len(log) : log[i].call = name }

Committed(log) == \E i \in CallsOf(log, "commit") : log[i].ok

InitTxn ==
    /\ tpc = "idle"
    /\ tkind = ""
    /\ treq = 0
    /\ texc = FALSE
    /\ tstatus = 0
    /\ tlog = <<>>
    /\ traised = FALSE
    /\ tcommitted = 0

\* SqlalchemyMiddleware.pre_request (lines 28-39): connect, then begin;
\* ZodbDaoMiddleware.process_request (lines 13-14) does nothing
PreRequest ==
    /\ tpc \in {"idle", "ended"}
    /\ treq < MaxRequests
    /\ treq' = treq + 1
    /\ tkind' \in IF tkind = "" THEN {"sqlalchemy", "zodb"} ELSE {tkind}
    /\ tlog' = IF tkind' = "sqlalchemy"
               THEN <<StoreCall("connect", TRUE), StoreCall("begin", TRUE)>>
               ELSE <<>>
    /\ texc' = FALSE
    /\ tstatus' = 0
    /\ traised' = FALSE
    /\ tpc' = "begun"
    /\ UNCHANGED tcommitted
    /\ UNCHANGED notTxnVars

\* the endpoint runs: it returns or raises; under falcon the response gets a
\* status code, which is not a 2xx one when the responder raised
Endpoint ==
    /\ tpc = "begun"
    /\ \E exc \in BOOLEAN, status \in Statuses :
        /\ texc' = exc
        /\ IF tkind = "zodb"
           THEN /\ (exc => status >= 400)
                /\ tstatus' = status
           ELSE /\ status = 200
                /\ tstatus' = 0
    /\ tpc' = "returned"
    /\ UNCHANGED <<tkind, treq, tlog, traised, tcommitted>>
    /\ UNCHANGED notTxnVars

\* SqlalchemyMiddleware.post_request (lines 41-69)
PostRequest ==
    /\ tpc = "returned"
    /\ tkind = "sqlalchemy"
    /\ \E commit_fails, rollback_fails \in BOOLEAN :
        LET calls == PostRequestCalls(texc, commit_fails, rollback_fails)
        IN  /\ tlog' = tlog \o calls
            /\ traised' = \E i \in CallsOf(calls, "rollback") : ~calls[i].ok
            /\ tcommitted' = IF Committed(calls) THEN tcommitted + 1 ELSE tcommitted
    /\ tpc' = "ended"
    /\ UNCHANGED <<tkind, treq, texc, tstatus>>
    /\ UNCHANGED notTxnVars

\* ZodbDaoMiddleware.process_response (lines 19-27)
ProcessResponse ==
    /\ tpc = "returned"
    /\ tkind = "zodb"
    /\ \E commit_fails, rollback_fails \in BOOLEAN :
        LET calls == ProcessResponseCalls(tstatus, commit_fails, rollback_fails)
        IN  /\ tlog' = tlog \o calls
            /\ traised' = \E i \in CallsOf(calls, "rollback") : ~calls[i].ok
            /\ tcommitted' = IF Committed(calls) THEN tcommitted + 1 ELSE tcommitted
    /\ tpc' = "ended"
    /\ UNCHANGED <<tkind, treq, texc, tstatus>>
    /\ UNCHANGED notTxnVars

NextTxn ==
    \/ PreRequest
    \/ Endpoint
    \/ PostRequest
    \/ ProcessResponse

\* ---------------------------------------------------------------------------
\* DaoBinder and DaoBinding (src/pybiz/dao/dao_binder.py)
\* ---------------------------------------------------------------------------

\* number of DAO instances the binder may create in the model
MaxDaos == 3

\* the BizObject classes, by __name__, and the Dao classes, by __name__
BizTypes == {"Node", "User"}
DaoTypes == {"FilesystemDao", "PythonDao"}

\* biz_type.__dao__(): the Dao class a BizObject class names for itself
DefaultDao(biz_type) == IF biz_type = "User" THEN "FilesystemDao" ELSE "PythonDao"

\* the state of a binder: its two dicts and the DAO instances it created,
\* instance i being the i-th created, with the invocations of its bind
Binder(bindings, named, binds) ==
    [bindings |-> bindings, named |-> named, binds |-> binds]

\* DaoBinding.__init__ (lines 8-12)
DaoBinding(biz_type, dao_instance) ==
    [biz_type |-> biz_type, dao_instance |-> dao_instance, is_bound |-> FALSE]

\* DaoBinding.bind (lines 17-19): the DAO instance is bound, then flagged
DaoBindingBindNoFlag(b, biz_type) ==
    Binder(b.bindings,
           b.named,
           [b.binds EXCEPT ![b.bindings[biz_type].dao_instance] = @ + 1])

DaoBindingBind(b, biz_type) ==
    Binder([b.bindings EXCEPT ![biz_type].is_bound = TRUE],
           b.named,
           [b.binds EXCEPT ![b.bindings[biz_type].dao_instance] = @ + 1])

\* DaoBinder.register (lines 64-85): a new DAO instance and a new binding,
\* replacing the binding the biz type had
RegisterOp(b, biz_type, dao_type) ==
    Binder((biz_type :> DaoBinding(biz_type, Len(b.binds) + 1)) @@ b.bindings,
           b.named \cup {dao_type},
           Append(b.binds, 0))

\* DaoBinder.get_dao_instance (lines 99-114): the binder it leaves
GetDaoInstanceOp(b, biz_type, bind) ==
    LET registered == IF biz_type \in DOMAIN b.bindings
                      THEN b
                      ELSE RegisterOp(b, biz_type, DefaultDao(biz_type))
    IN  IF bind /\ ~registered.bindings[biz_type].is_bound
        THEN DaoBindingBind(registered, biz_type)
        ELSE registered

\* DaoBinder.bind (lines 87-94): get_dao_instance on each biz type in turn
RECURSIVE BindEach(_, _)
BindEach(b, biz_types) ==
    IF biz_types = <<>> THEN b
    ELSE BindEach(GetDaoInstanceOp(b, Head(biz_types), TRUE), Tail(biz_types))

\* lines 88-91: every registered biz type when no biz type is given
BindTargets(b, biz_types) ==
    IF biz_types = {} THEN DOMAIN b.bindings ELSE biz_types

\* the order in which bind visits the biz types it is given
TypeOrder == <<"Node", "User">>

InType(S, t) == t \in S

TypeSeq(S) == SelectSeq(TypeOrder, LAMBDA t : InType(S, t))

CurrentBinder == Binder(gbindings, gnamed, gbinds)

NoReturn == [biz_type |-> "", bind |-> FALSE, dao_instance |-> 0, is_bound |-> FALSE]

InitBinder ==
    /\ gpc = "none"
    /\ gbindings = [t \in {} |-> DaoBinding("", 0)]
    /\ gnamed = {}
    /\ gbinds = <<>>
    /\ gret = NoReturn

\* binder.register(biz_type, dao_type)
Register ==
    /\ Len(gbinds) < MaxDaos
    /\ \E biz_type \in BizTypes, dao_type \in DaoTypes :
        LET b == RegisterOp(CurrentBinder, biz_type, dao_type)
        IN  /\ gbindings' = b.bindings
            /\ gnamed' = b.named
            /\ gbinds' = b.binds
    /\ gpc' = "register"
    /\ UNCHANGED gret
    /\ UNCHANGED notBinderVars

\* binder.bind(biz_types)
BinderBind ==
    /\ \E biz_types \in SUBSET BizTypes :
        LET b == BindEach(CurrentBinder,
                          TypeSeq(BindTargets(CurrentBinder, biz_types)))
        IN  /\ Len(b.binds) <= MaxDaos
            /\ gbindings' = b.bindings
            /\ gnamed' = b.named
            /\ gbinds' = b.binds
    /\ gpc' = "bind"
    /\ UNCHANGED gret
    /\ UNCHANGED notBinderVars

\* binder.get_dao_instance(biz_type, bind)
GetDaoInstance ==
    /\ \E biz_type \in BizTypes, bind \in BOOLEAN :
        LET b == GetDaoInstanceOp(CurrentBinder, biz_type, bind)
        IN  /\ Len(b.binds) <= MaxDaos
            /\ gbindings' = b.bindings
            /\ gnamed' = b.named
            /\ gbinds' = b.binds
            /\ gret' = [biz_type |-> biz_type,
                        bind |-> bind,
                        dao_instance |-> b.bindings[biz_type].dao_instance,
                        is_bound |-> b.bindings[biz_type].is_bound]
    /\ gpc' = "get"
    /\ UNCHANGED notBinderVars

NextBinder ==
    \/ Register
    \/ BinderBind
    \/ GetDaoInstance

vars == <<execVars, relVars, dumpVars, propVars, assignVars, bindVars,
          queryVars, predVars, crudVars,
          backfillVars,
          nestVars,
          txnVars,
          binderVars>>

InitAll == InitExec /\ InitRel /\ InitDump /\ InitProp /\ InitAssign /\ InitBind
           /\ InitQuery /\ InitPred /\ InitCrud /\ InitBackfill /\ InitNest /\ InitTxn /\ InitBinder

NextExec ==
    \/ Analyze
    \/ Fetch
    \/ FetchFails
    \/ NextRequest
    \/ ResolveOne
    \/ ResolveFails
    \/ EndRequest
    \/ Return

SpecExec == InitAll /\ [][NextExec]_vars

SpecRel == InitAll /\ [][NextRel]_vars

SpecDump == InitAll /\ [][NextDump]_vars

SpecProp == InitAll /\ [][NextProp]_vars

SpecAssign == InitAll /\ [][NextAssign]_vars

SpecBind == InitAll /\ [][NextBind]_vars

SpecQuery == InitAll /\ [][NextQuery]_vars

SpecPred == InitAll /\ [][NextPred]_vars

SpecCrud == InitAll /\ [][NextCrud]_vars

SpecBackfill == InitAll /\ [][NextBackfill]_vars

SpecNest == InitAll /\ [][NextNest]_vars

SpecTxn == InitAll /\ [][NextTxn]_vars

SpecBinder == InitAll /\ [][NextBinder]_vars

\* ------------------------------------------------------------------------
\* Claims about the Executor
\* ------------------------------------------------------------------------

SelectedFields == query.selected \cap SchemaFields
SelectedResolvers == query.selected \ SchemaFields

\* C1: every resource fetched for, and returned by, Executor.execute(Q) has a
\* state holding the identity field, the revision field and every schema
\* field selected in Q, also when Q selects no field at all.
C1_SelectionCompleteness ==
    /\ epc \in {"fetched", "done"} =>
          \A i \in 1..Len(resources) :
              ({ID, REV} \cup SelectedFields) \subseteq DOMAIN resources[i]
    /\ epc = "done" =>
          \A i \in 1..Len(retval) :
              ({ID, REV} \cup SelectedFields) \subseteq DOMAIN retval[i]

\* a query that selects nothing has returned a resource
C1_Witness ==
    /\ epc = "done"
    /\ query.selected = {}
    /\ retKind = "batch"
    /\ Len(retval) = StoreSize

\* C2 as stated: the state keys of every returned resource are exactly the
\* selected field names united with {id, rev}.
C2_KeysAreSelectedFields ==
    epc = "done" =>
        \A i \in 1..Len(retval) :
            DOMAIN retval[i] = SelectedFields \cup {ID, REV}

\* C2 amended: the state keys of every returned resource are the selected
\* field names united with {id, rev} and with the names of the selected
\* non-field resolvers; an unselected schema field is absent from state.
C2_KeysAreSelectedNames ==
    epc = "done" =>
        \A i \in 1..Len(retval) :
            /\ DOMAIN retval[i] = SelectedFields \cup {ID, REV} \cup SelectedResolvers
            /\ \A f \in SchemaFields \ (SelectedFields \cup {ID, REV}) :
                   f \notin DOMAIN retval[i]

\* only the identity is selected, next to a relationship, and name is absent
C2_Witness ==
    /\ epc = "done"
    /\ query.selected = {ID, "owner"}
    /\ Len(retval) = StoreSize
    /\ "name" \notin DOMAIN retval[1]
    /\ "owner" \in DOMAIN retval[1]

\* the order Resolver.sort gives the query's requests, taken in declaration order
SortedRequests == ResolverSort(SetToSeqBy(info.requests, DeclOrder))

PositionIn(seq, x) == CHOOSE k \in 1..Len(seq) : seq[k] = x

\* C3: within one pass of _execute_requests the resolvers are invoked in
\* ascending priority() order, resolvers of equal priority in declaration
\* order.
C3_PriorityOrder ==
    \A i, j \in 1..Len(callLog) :
        i < j => PositionIn(SortedRequests, callLog[i].resolver)
                    <= PositionIn(SortedRequests, callLog[j].resolver)

\* ------------------------------------------------------------------------
\* Claims about Relationship.pre_resolve_batch
\* ------------------------------------------------------------------------

\* C4: a batch resolution that is carried out (the application is not
\* simulating) over a batch of N resources and a chain of k joins issues
\* exactly one Store query per join hop, k in total, whatever N is; at no
\* point has it issued more queries than hops entered.
C4_OneQueryPerHop ==
    /\ (rpc # "resolved" => Len(rstoreLog) <= Len(rmappings))
    /\ (rpc \in {"flatten", "done"} /\ ~rsim) =>
          /\ Len(rstoreLog) = Len(rjoins)
          /\ \A h \in 1..Len(rjoins) : rstoreLog[h].hop = h

\* a two-hop chain over a full batch has been resolved with two queries
C4_Witness ==
    /\ rpc = "done"
    /\ ~rsim
    /\ Len(rbatch) = MaxBatch
    /\ Len(rjoins) = 2
    /\ Len(rstoreLog) = 2
    /\ Len(rqueried[1]) = TableSize

\* the resources of the hop's result whose right value is the left value of
\* the batch resource at position i (one-hop relationship)
OneHopMatches(i) ==
    {k \in 1..Len(rqueried[1]) :
        rqueried[1][k][rjoins[1].right] = rbatch[i][rjoins[1].left]}

\* C5: for a one-hop relationship, batch resolution gives every s of the
\* batch exactly the resources t of the hop's result with
\* t.right_field = s.left_field; with many=false the value is one such t, or
\* None when there is none.
C5_OneHopJoin ==
    (rpc = "done" /\ ~rsim /\ Len(rjoins) = 1) =>
        /\ DOMAIN rresult = 1..Len(rbatch)
        /\ \A i \in 1..Len(rbatch) :
              IF rmany
              THEN /\ rresult[i].kind = "batch"
                   /\ BagSupport(rresult[i].bag) = OneHopMatches(i)
              ELSE IF OneHopMatches(i) = {}
                   THEN rresult[i].kind = "none"
                   ELSE /\ rresult[i].kind = "one"
                        /\ rresult[i].one \in OneHopMatches(i)

\* a parent with two children, next to a resource without related resources
C5_Witness ==
    /\ rpc = "done"
    /\ ~rsim
    /\ Len(rjoins) = 1
    /\ rmany
    /\ Len(rbatch) = 2
    /\ Cardinality(OneHopMatches(1)) = 2
    /\ OneHopMatches(2) = {}

\* C6: the collection a many relationship assigns to a source resource after
\* flattening holds every related resource at most once.
C6_FlattenedOnce ==
    (rpc = "done" /\ ~rsim /\ rmany) =>
        \A i \in 1..Len(rbatch) :
            \A t \in DOMAIN rresult[i].bag : rresult[i].bag[t] <= 1

\* ------------------------------------------------------------------------
\* Claims about the side-loaded dump
\* ------------------------------------------------------------------------

\* C7: in a completed side-loaded dump, links (a dict keyed by identity, so
\* an identity holds at most one entry) has an entry for a resource exactly
\* when a relationship path reached that resource, however many paths did.
C7_RelatedOnceInLinks ==
    dpc = "done" =>
        \A n \in Nodes : (darrivals[n] >= 1) <=> (n \in dlinks)

\* a completed dump of SideLoadedDumper in which two relationship paths
\* reached one resource
C7_Witness ==
    /\ dpc = "done"
    /\ dimpl = "dumper"
    /\ \E n \in Nodes : darrivals[n] >= 2 /\ n \in dlinks

\* C8: the side-loaded dump terminates on every resolved object graph,
\* cycles included: the traversal never exhausts the call stack and is
\* called on each resource at most once.
C8_TerminatesVisitingOnce ==
    /\ derr # "RecursionError"
    /\ \A n \in Nodes : dentered[n] <= 1

\* ------------------------------------------------------------------------
\* Claims about Resolver.execute and ResolverProperty
\* ------------------------------------------------------------------------

Slots(log) == [i \in 1..Len(log) |-> log[i].slot]

OnExecuteEvents == {i \in 1..Len(plog) : plog[i].slot = "on_execute"}

\* C10: a read of a key that is absent from the state, on a lazy resolver,
\* when it returns, has run on_execute once with a request whose source is
\* the owner and which selects and names only that resolver; the processed
\* result is stored under the key, it is the value returned, and no other
\* key of the state has changed.
C10_LazyRead ==
    (/\ pop.op = "read"
     /\ pop.key \notin DOMAIN ppre
     /\ presolver.lazy
     /\ pret.exc = "") =>
        /\ Cardinality(OnExecuteEvents) = 1
        /\ \A i \in OnExecuteEvents :
              /\ plog[i].req.source = Owner
              /\ plog[i].req.resolver = pop.key
              /\ plog[i].req.selected = {pop.key}
              /\ i < Len(plog)
              /\ plog[i + 1].slot = "post_execute"
              /\ plog[i + 1].ret = pret.value
        /\ pop.key \in DOMAIN pstate
        /\ pstate[pop.key] = pret.value
        /\ DOMAIN pstate = DOMAIN ppre \cup {pop.key}
        /\ \A k \in DOMAIN ppre : pstate[k] = ppre[k]

\* a lazy read of an absent key has returned while another key was set
C10_Witness ==
    /\ pop.op = "read"
    /\ pop.key \notin DOMAIN ppre
    /\ DOMAIN ppre # {}
    /\ presolver.lazy
    /\ pret.exc = ""
    /\ pret.value \in Values
    /\ pop.key \in DOMAIN pstate

\* C11: a read of a key that is absent from the state, on a resolver that is
\* not lazy, raises AttributeError ("<key> not loaded"); no callback has been
\* invoked (so neither on_execute, on_get nor on_set) and the state is as it
\* was before the read.
C11_NonLazyReadFails ==
    (/\ pop.op = "read"
     /\ pop.key \notin DOMAIN ppre
     /\ ~presolver.lazy) =>
        /\ pret.exc = "AttributeError"
        /\ plog = <<>>
        /\ pstate = ppre

\* a non-lazy read of an absent key has happened on a resolver that has an
\* on_execute, while the other key was set
C11_Witness ==
    /\ pop.op = "read"
    /\ pop.key \notin DOMAIN ppre
    /\ DOMAIN ppre # {}
    /\ ~presolver.lazy
    /\ presolver.on_execute = "user.on_execute"
    /\ pret.exc = "AttributeError"

\* C12: a write stores the value under the resolver's name, changes no other
\* key, and invokes on_set exactly once (and no other callback) with the
\* value the key held before the write (None when it was unset) and the new
\* value.
C12_WriteInvokesOnSet ==
    pop.op = "write" =>
        /\ pret.exc = ""
        /\ pop.key \in DOMAIN pstate
        /\ pstate[pop.key] = pop.value
        /\ DOMAIN pstate = DOMAIN ppre \cup {pop.key}
        /\ \A k \in DOMAIN ppre \ {pop.key} : pstate[k] = ppre[k]
        /\ Slots(plog) = <<"on_set">>
        /\ plog[1].fn = presolver.on_set
        /\ plog[1].args = <<DictGet(ppre, pop.key), pop.value>>

\* a write has replaced a value that was set with a different one
C12_Witness ==
    /\ pop.op = "write"
    /\ pop.key \in DOMAIN ppre
    /\ ppre[pop.key] \in Values
    /\ pop.value \in Values
    /\ ppre[pop.key] # pop.value
    /\ pstate[pop.key] = pop.value

\* C13 (as stated): a delete invokes on_del with the removed value while the
\* key is still in the owner's state, and afterwards the key is absent.
C13_OnDelBeforeRemoval ==
    pop.op = "delete" =>
        /\ Slots(plog) = <<"on_del">>
        /\ plog[1].args = <<DictGet(ppre, pop.key)>>
        /\ (pop.key \in DOMAIN ppre => plog[1].present)
        /\ pop.key \notin DOMAIN pstate

\* C13 (amended): a delete of a key that is set first removes the key from
\* the owner's state and then invokes on_del with the removed value, so
\* on_del observes the owner without the key; afterwards the key is absent.
C13_OnDelAfterRemoval ==
    (pop.op = "delete" /\ pop.key \in DOMAIN ppre) =>
        /\ pret.exc = ""
        /\ Slots(plog) = <<"on_del">>
        /\ plog[1].fn = presolver.on_del
        /\ plog[1].args = <<ppre[pop.key]>>
        /\ ~plog[1].present
        /\ pop.key \notin DOMAIN pstate

\* a delete has removed a key that held a value, with a user on_del
C13_Witness ==
    /\ pop.op = "delete"
    /\ pop.key \in DOMAIN ppre
    /\ ppre[pop.key] \in Values
    /\ presolver.on_del = "user.on_del"
    /\ pop.key \notin DOMAIN pstate

\* ------------------------------------------------------------------------
\* Claims about assignment to a relationship
\* ------------------------------------------------------------------------

\* the assignment gave one object to a many relationship, or a list to a
\* relationship that is not many
ScalarMismatch ==
    /\ aop.op = "set"
    /\ \/ aop.value.kind = "object" /\ arel.many
       \/ aop.value.kind = "list" /\ ~arel.many

\* C14: assigning one object to a relationship with many=True, or a list to
\* a relationship with many=False, raises (ValueError, unless the
\* relationship is read-only and RelationshipError came first); the stored
\* related value and the foreign key are what they were and no callback ran.
C14_MismatchRaises ==
    ScalarMismatch =>
        /\ aexc = IF arel.readonly THEN "RelationshipError" ELSE "ValueError"
        /\ arelated = aprev.related
        /\ afk = aprev.fk
        /\ alog = <<>>

\* a mismatched assignment was refused while a related value was stored
C14_Witness ==
    /\ ScalarMismatch
    /\ aimpl = "property"
    /\ aexc = "ValueError"
    /\ aprev.related # Unset
    /\ arelated = aprev.related

\* ------------------------------------------------------------------------
\* Claims about Resolver.bind
\* ------------------------------------------------------------------------

\* C15: however often a resolver is bound, its deferred configuration (the
\* target callback, the join callback) is resolved once, and from the second
\* bind on the resolver's target type, many flag and is_bound do not change.
C15_BindOnce ==
    /\ bcalls <= 1
    /\ bjoincalls <= 1
    /\ (bbinds >= 2 /\ bexc = "") => bres = bprev

\* ------------------------------------------------------------------------
\* Claims about QuerySpecification
\* ------------------------------------------------------------------------

\* C16: whatever form build was given (a specification, a dict, a list,
\* tuple or set of names, or nothing) and whatever was selected, the fields
\* of the specification it returns contain the identity field and every
\* required field of the schema.
C16_ForcedFields ==
    (qpc = "built" /\ qexc = "") =>
        ({Source(ID)} \cup {Source(f) : f \in QueryRequired}) \subseteq qspec.fields

\* a build that selected only a field that is neither required nor the
\* identity has returned
C16_Witness ==
    /\ qpc = "built"
    /\ qexc = ""
    /\ qinput.form = "dict"
    /\ qinput.names = {"color"}
    /\ qinput.fields = {}
    /\ qspec.fields = {Source(ID), Source("name"), Source("color")}

\* C17: in every QuerySpecification, limit is not negative when it is
\* present and offset is not negative when it is present.
C17_NonNegative ==
    /\ \A n \in qspec.limit : n >= 0
    /\ \A n \in qspec.offset : n >= 0

\* ------------------------------------------------------------------------
\* Claims about predicates
\* ------------------------------------------------------------------------

\* the symbol of the operator a predicate is built with
OperatorSymbol(op) ==
    CASE op = "eq" -> "=="
      [] op = "neq" -> "!="
      [] op = "gt" -> ">"
      [] op = "lt" -> "<"
      [] op = "geq" -> ">="
      [] op = "leq" -> "<="
      [] op = "in" -> "IN"
      [] op = "ex" -> "NOT IN"
      [] op = "and" -> "AND"
      [] op = "or" -> "OR"

\* the rendering the claim describes: each predicate inside its own
\* parentheses, with the symbol of its operator between its operands
RECURSIVE Rendering(_)
Rendering(p) ==
    IF p.kind = "cond"
    THEN <<"(", IF p.prop # "" THEN p.prop ELSE "[NULL]", OperatorSymbol(p.op),
           p.value, ")">>
    ELSE <<"(">> \o Rendering(p.lhs) \o <<OperatorSymbol(p.op)>>
         \o Rendering(p.rhs) \o <<")">>

\* C18: the string of a predicate shows, for every comparison and every
\* AND / OR in it, the symbol of the operator it was built with, and every
\* boolean sub-tree inside its own parentheses.
C18_RenderReproducesOperators ==
    xstr # <<>> => xstr = Rendering(xstack[Len(xstack)])

\* ------------------------------------------------------------------------
\* Claims about create and update
\* ------------------------------------------------------------------------

\* C19: after a successful create or update of a resource, also one made
\* while the state held a stale or erroneous revision, the resource has no
\* dirty key and its revision is not None and differs from every revision
\* the resource held before that write.
C19_FreshRevAfterWrite ==
    (cop.name \in {"create", "update"} /\ cexc = "") =>
        /\ cdirty = {}
        /\ REV \in DOMAIN cstate
        /\ cstate[REV] # {}
        /\ cstate[REV] \cap cheld = {}

\* C20: after a successful create the id of the resource is not None, and
\* it is the id the resource had before when that id was not None.
C20_IdAfterCreate ==
    (cop.name = "create" /\ cexc = "") =>
        /\ ID \in DOMAIN cstate
        /\ cstate[ID] # {}
        /\ (ID \in DOMAIN cop.pre /\ cop.pre[ID] # {}) => cstate[ID] = cop.pre[ID]

\* ------------------------------------------------------------------------
\* Claims about lazy reads and the observers of a resolver
\* ------------------------------------------------------------------------

\* C26: once a lazy read of a key has succeeded, every read of that key that
\* follows it with only reads of the key in between returns the value the
\* lazy read stored, invokes no on_execute and leaves the state as it is.
C26_LazyReadCached ==
    [][\A k \in DOMAIN plazy :
          (pop'.op = "read" /\ pop'.key = k) =>
              /\ pret'.exc = ""
              /\ pret'.value = plazy[k]
              /\ \A i \in 1..Len(plog') : plog'[i].slot # "on_execute"
              /\ pstate' = pstate]_vars

\* a read has followed a successful lazy read of the same key, and returned
\* the value the lazy read computed through a user's post_execute
C26_Witness ==
    /\ pop.op = "read"
    /\ pop.key \in DOMAIN ppre
    /\ pop.key \in DOMAIN plazy
    /\ presolver.post_execute = "user.post_execute"
    /\ pret.value = plazy[pop.key]
    /\ pop.value # pret.value

OnSetEvents == {i \in 1..Len(plog) : plog[i].slot = "on_set"}

\* C27: a lazy read of a key that is absent from the state, when it returns,
\* has invoked on_set exactly once, with None as the old value and the
\* computed value as the new one.
C27_LazyReadSetsOnce ==
    (/\ pop.op = "read"
     /\ pop.key \notin DOMAIN ppre
     /\ presolver.lazy
     /\ pret.exc = "") =>
        /\ Cardinality(OnSetEvents) = 1
        /\ \A i \in OnSetEvents : plog[i].args = <<NoneValue, pret.value>>

\* the functions a resolver can hold as its on_get callback
OnGetFunctions == {"user.on_get", "Resolver.on_get"}

\* C28: a read of a key that is in the state invokes the on_get callback of
\* the resolver and nothing else: the function invoked is the on_get given
\* to the constructor or, when none was given, the default Resolver.on_get,
\* never an on_set function.
C28_ReadFiresOnlyOnGet ==
    (pop.op = "read" /\ pop.key \in DOMAIN ppre) =>
        /\ Slots(plog) = <<"on_get">>
        /\ plog[1].fn \in OnGetFunctions

\* ------------------------------------------------------------------------
\* Claims about backfill
\* ------------------------------------------------------------------------

\* C21: when execute runs with a backfiller and the Dao returned fewer
\* objects than the limit of the query (1 when it has none), the targets it
\* continues with and returns hold every fetched object and at least one
\* generated object.
C21_BackfillKeepsFetched ==
    (/\ fpc = "execute"
     /\ fparams.backfiller
     /\ Len(ffetched) < LimitOrOne(fparams.limit)) =>
        /\ Range(ffetched) \subseteq Range(ftargets)
        /\ \E i \in 1..Len(ftargets) : ftargets[i] < 0

\* ------------------------------------------------------------------------
\* Claims about the steps of Executor.execute
\* ------------------------------------------------------------------------

\* the moves of execute from one position to the next
StepPairs ==
    { <<"idle", "analyzed">>, <<"analyzed", "fetched">>, <<"fetched", "done">>,
      <<"analyzed", "failed">>, <<"fetched", "failed">> }

\* what holds in every state of one execute
StepsState ==
    /\ storeQueries <= 1
    /\ (epc \in {"fetched", "done"} => storeQueries = 1 /\ eexc = "")
    /\ (callLog # <<>> => storeQueries = 1)
    /\ (epc \in {"idle", "analyzed"} => storeQueries = 0 /\ callLog = <<>>)
    /\ \A i, j \in 1..Len(callLog) : callLog[i] = callLog[j] => i = j
    /\ (retKind # "unset" <=> epc = "done")
    /\ (epc = "failed" <=> eexc # "")

\* what holds of every step of one execute
StepsAction ==
    /\ (epc' = epc \/ <<epc, epc'>> \in StepPairs)
    /\ epc = "failed" => (callLog' = callLog /\ retKind' = "unset")
    /\ storeQueries' # storeQueries => (epc = "analyzed" /\ callLog = <<>>)

\* C22: one execute goes through analyze, fetch, resolve-requests and done in
\* that order, never back; the Store is queried exactly once, before any
\* resolver is invoked; no resolver is invoked twice on the same resource;
\* and once the Store query or a resolver has raised, execute has failed: no
\* resolver is invoked after that and no value is returned.
C22_StepsInOrder == [](StepsState) /\ [][StepsAction]_vars

\* a resolver has raised after an earlier resolver call had succeeded, and
\* requests were still pending
C22_Witness ==
    /\ epc = "failed"
    /\ eexc = "NotImplementedError"
    /\ Len(callLog) >= 2
    /\ pending # {}
    /\ retKind = "unset"

\* ------------------------------------------------------------------------
\* Claims about the final query and the simulation mode of a Relationship
\* ------------------------------------------------------------------------

\* C23: once pre_resolve or pre_resolve_batch has built the query of the
\* final hop, that query has the limit of the request when the request has
\* one, the offset of the request when it has one, and exactly the ordering
\* of the request.
C23_FinalQueryOverrides ==
    (rpc \in {"flatten", "done", "resolved"} /\ ~rsim) =>
        /\ (Truthy(rparams.limit) => rfinal.limit = rparams.limit)
        /\ (Truthy(rparams.offset) => rfinal.offset = rparams.offset)
        /\ rfinal.order_by = rparams.order_by

\* C25: while the application is simulating, pre_resolve and
\* pre_resolve_batch issue no Store query and do not assign request.result.
C25_SimulationSkips ==
    rsim =>
        /\ rstoreLog = <<>>
        /\ ~rresultSet
        /\ rresult = <<>>
        /\ rqueried = <<>>
        /\ rpc \in {"done", "resolved"}

\* pre_resolve has returned in simulation mode for a resource that has
\* children, on the relationship that joins a resource to its children
C25_Witness ==
    /\ rsim
    /\ rpc = "resolved"
    /\ rjoins = <<Join(ID, "pid")>>
    /\ \E i \in TableIds : rtable[i] = rbatch[1][ID]

\* ---------------------------------------------------------------------------
\* Claims about the nested dump
\* ---------------------------------------------------------------------------

\* the caller's selection spec names relationship k of the dumped resource
NestAsked(k) ==
    nfields # {} /\ k \in DOMAIN UnflattenKeys(nfields).sub

\* C24: in the nested dump, a relationship that is not loaded on the dumped
\* resource raises an error when the caller's selection spec asked for it,
\* and is otherwise left out of the record without an error of its own.
C24_UnloadedRaisesIffAsked ==
    npc = "done" =>
        \A i \in 1..Len(NestRels) :
            NestUnloaded(nrelated, 1, NestRels[i]) =>
                IF NestAsked(NestRels[i])
                THEN nresult.exc # ""
                ELSE nresult.exc = "" => NestRels[i] \notin nresult.keys

\* ---------------------------------------------------------------------------
\* Claims about the transaction middleware
\* ---------------------------------------------------------------------------

\* the endpoint failed: it raised, or (zodb) its response is not a 2xx one
EndpointFailed ==
    IF tkind = "zodb" THEN ~(200 <= tstatus /\ tstatus < 300) ELSE texc

====
